---- MODULE Spec2Model ----
(***************************************************************************)
(* Fleet selection (src/src/optimization.py): the exact binary MILP        *)
(* selector, the min-max robust selector, the validator and the metric     *)
(* aggregation, as a state machine over one call of an entry point.        *)
(*                                                                         *)
(* Units.  Floats of the program are exact fixed-point integers here:      *)
(*   money (final_cost, carbon_cost, Z)    in cents (USD * 100)            *)
(*   CO2eq and co2_cap                     in hundredths of a tonne        *)
(*   carbon_price                          in USD per tonne                *)
(*   dwt and cargo_demand                  in tonnes                       *)
(*   safety_score                          the integer score               *)
(*   min_avg_safety                        in tenths (3.0 is 30)           *)
(* so CO2eq * carbon_price is in cents.  An optional value (None in the    *)
(* program) is the empty set, Some(v) is {v}.  A DataFrame is a sequence   *)
(* of rows; pandas' RangeIndex 0..n-1 is 1..n here.                        *)
(***************************************************************************)
EXTENDS Integers, Sequences, FiniteSets, TLC

VARIABLES
    call,                    \* the entry point this run invokes
    df,                      \* the vessel pool handed to it
    cargo_demand,            \* argument cargo_demand
    min_avg_safety,          \* argument min_avg_safety (None for the robust call)
    require_all_fuel_types,  \* argument require_all_fuel_types
    co2_cap,                 \* argument co2_cap (None or Some(cap))
    scenarios,               \* argument scenarios: sequence of [name, carbon_price, min_avg_safety]
    pc,                      \* position of the run
    status,                  \* prob.status after prob.solve (None before)
    selected,                \* the returned list of vessel ids
    z_value,                 \* the returned Z (None or Some(z))
    ok,                      \* validate_fleet's verdict (None before)
    errors,                  \* validate_fleet's violations, in order
    cost_by_scenario,        \* fleet_costs_by_scenario's result, in scenario order
    solves,                  \* the calls of select_fleet_milp an analysis made, in order
    thresholds,              \* run_safety_sweep's argument thresholds
    results,                 \* run_safety_sweep's list of records
    result,                  \* the dict an analysis returns (None before)
    csv,                     \* the table pd.read_csv finds in main (None elsewhere)
    raised,                  \* the exception the run ended with (None if none)
    printed,                 \* the result lines main has printed
    metrics,                 \* main's metrics dict (None if empty)
    saved,                   \* the ids save_chosen_fleet wrote (None before)
    n_points,                \* run_pareto_sweep's argument n_points (None elsewhere)
    carbon_prices,           \* run_carbon_price_sweep's argument carbon_prices
    epsilons,                \* run_pareto_sweep's grid of caps, once built
    df_copy                  \* run_carbon_price_sweep's df_copy (None before the loop)

sweepVars == <<n_points, carbon_prices, epsilons, df_copy>>

analysisVars == <<solves, thresholds, results, result, csv, raised, printed, metrics, saved,
                  sweepVars>>

vars == <<call, df, cargo_demand, min_avg_safety, require_all_fuel_types, co2_cap,
          scenarios, pc, status, selected, z_value, ok, errors, cost_by_scenario,
          solves, thresholds, results, result, csv, raised, printed, metrics, saved,
          n_points, carbon_prices, epsilons, df_copy>>

None == {}
Some(v) == {v}
TheVal(o) == CHOOSE v \in o : TRUE

(***************************************************************************)
(* Bounds of the model.                                                    *)
(***************************************************************************)
MaxVessels == 4
MaxDemand == 8
MaxScenarios == 2

(***************************************************************************)
(* Program constants.                                                      *)
(***************************************************************************)
CARBON_PRICE == 80
LpStatusOptimal == 1
LpStatusInfeasible == -1

(***************************************************************************)
(* Input domains.                                                          *)
(***************************************************************************)
Vessel(id, dwt, safety, fuel, cost, co2) ==
    [vessel_id |-> id, dwt |-> dwt, safety_score |-> safety,
     main_engine_fuel_type |-> fuel, final_cost |-> cost,
     carbon_cost |-> co2 * CARBON_PRICE, CO2eq |-> co2]

\* The five checkpoint vessels of tests/fixtures/checkpoint_vessels.csv, in file order.
FixtureVessels ==
    << Vessel(10102950, 175108, 1, "DISTILLATE FUEL",  88068800, 57453),
       Vessel(10657280, 206331, 3, "Ammonia",         126021600, 14308),
       Vessel(10791900, 179700, 5, "LNG",             104396500, 54851),
       Vessel(10522650, 115444, 3, "Methanol",        115613400, 54838),
       Vessel(10673120, 178838, 3, "Hydrogen",        118554000, 10367) >>

\* A catalogue of small vessels; a pool is a sub-table of it.
Catalogue ==
    << Vessel(40, 2, 1, "DISTILLATE FUEL", 500, 3),
       Vessel(10, 2, 3, "LNG",             700, 2),
       Vessel(30, 1, 5, "LNG",             600, 1),
       Vessel(20, 3, 4, "Ammonia",         900, 1),
       Vessel(60, 1, 3, "DISTILLATE FUEL", 500, 2),
       Vessel(50, 2, 5, "Methanol",        800, 4) >>

Scenario(name, cp, safety) == [name |-> name, carbon_price |-> cp, min_avg_safety |-> safety]

DEFAULT_ROBUST_SCENARIOS ==
    << Scenario("base", 80, 30),
       Scenario("safety_stress", 80, 40),
       Scenario("carbon_stress", 160, 30),
       Scenario("joint_stress", 160, 40) >>

\* The scenario set of tests/test_robust_milp.py.
FEASIBLE_SCENARIOS ==
    << Scenario("base", 80, 10),
       Scenario("high_carbon", 160, 10) >>

RECURSIVE SubSeqOf(_, _, _)
\* The rows of table whose positions are in keep, in table order.
SubSeqOf(table, keep, i) ==
    IF i > Len(table) THEN << >>
    ELSE (IF i \in keep THEN << table[i] >> ELSE << >>) \o SubSeqOf(table, keep, i + 1)

SubTables(table, maxLen) ==
    { SubSeqOf(table, keep, 1) :
        keep \in { k \in SUBSET (1..Len(table)) : k # {} /\ Cardinality(k) <= maxLen } }

Pools == SubTables(Catalogue, MaxVessels)
ScenarioSets ==
    SubTables(DEFAULT_ROBUST_SCENARIOS, MaxScenarios) \cup SubTables(FEASIBLE_SCENARIOS, MaxScenarios)
Demands == (-1)..MaxDemand
Thresholds == {10, 30, 35, 45}
Co2Caps == {None, Some(3), Some(5)}
FixtureDemands == {0, 500000, 700000, 855421, 999999999}
FixtureThresholds == {10, 30, 40}
FixtureScenarioSets == { FEASIBLE_SCENARIOS, DEFAULT_ROBUST_SCENARIOS }

(***************************************************************************)
(* Helpers: pandas and PuLP primitives.                                    *)
(***************************************************************************)
Indices(d) == 1..Len(d)

RECURSIVE lpSum(_, _)
\* lpSum([coef[i] * x[i] for i in indices]) at the 0/1 point whose ones are X.
lpSum(coef, X) ==
    IF X = {} THEN 0
    ELSE LET i == CHOOSE j \in X : TRUE IN coef[i] + lpSum(coef, X \ {i})

\* df["vessel_id"].isin(ids): positions of the rows whose id is listed.
IsIn(d, ids) == { i \in Indices(d) : \E k \in 1..Len(ids) : ids[k] = d[i].vessel_id }

Column(d, col) == [i \in Indices(d) |-> d[i][col]]

RECURSIVE Sorted(_)
\* sorted(l) of a list of integers (equal entries are kept).
Sorted(l) ==
    IF l = << >> THEN << >>
    ELSE LET m == CHOOSE a \in 1..Len(l) : \A b \in 1..Len(l) : l[a] <= l[b]
         IN  << l[m] >> \o Sorted(SubSeqOf(l, (1..Len(l)) \ {m}, 1))

Max(S) == CHOOSE a \in S : \A b \in S : b <= a
Min(S) == CHOOSE a \in S : \A b \in S : a <= b

(***************************************************************************)
(* build_scenario_cost_matrix and fleet_costs_by_scenario.                 *)
(***************************************************************************)
\* original_carbon: the carbon_cost column if the pool has one, else
\* CO2eq * CARBON_PRICE.
OriginalCarbon(d) ==
    [i \in Indices(d) |-> IF "carbon_cost" \in DOMAIN d[i] THEN d[i].carbon_cost
                          ELSE d[i].CO2eq * CARBON_PRICE]

\* Faulty variant: the original carbon cost is not taken out of final_cost.
ScenarioCostColumn_KeepsCarbon(d, cp) ==
    [i \in 1..Len(d) |-> d[i].final_cost + d[i].CO2eq * cp]

\* One column of the matrix: final_cost - original_carbon + CO2eq * cp, per row of d.
ScenarioCostColumn(d, cp) ==
    [i \in Indices(d) |-> d[i].final_cost - OriginalCarbon(d)[i] + d[i].CO2eq * cp]

\* The matrix: one column per scenario, in scenario order.
build_scenario_cost_matrix(d, scs) ==
    [s \in 1..Len(scs) |-> ScenarioCostColumn(d, scs[s].carbon_price)]

\* Total cost of the listed fleet under each scenario.
fleet_costs_by_scenario(d, scs, ids) ==
    LET cost_matrix == build_scenario_cost_matrix(d, scs)
        mask == IsIn(d, ids)
    IN  [s \in 1..Len(scs) |-> lpSum(cost_matrix[s], mask)]

(***************************************************************************)
(* validate_fleet.                                                         *)
(***************************************************************************)
\* Faulty variant: a capacity equal to the demand is reported too.
DwtViolated_OrEqual(d, subset, demand) == lpSum(Column(d, "dwt"), subset) <= demand

\* subset["dwt"].sum() < cargo_demand_tonnes
DwtViolated(d, subset, demand) == lpSum(Column(d, "dwt"), subset) < demand

\* subset["safety_score"].mean() < min_avg_safety; the mean of no rows is NaN,
\* and NaN < t is False.  sum / n < t / 10 is compared as 10 * sum < t * n.
SafetyViolated(d, subset, t) ==
    /\ subset # {}
    /\ 10 * lpSum(Column(d, "safety_score"), subset) < t * Cardinality(subset)

FuelTypes(d, rows) == { d[i].main_engine_fuel_type : i \in rows }

\* all_types - selected_types is not empty
FuelViolated(d, subset) == FuelTypes(d, Indices(d)) \ FuelTypes(d, subset) # {}

\* The list of violations, in the order the checks run.
ValidationErrors(d, ids, demand, t, diversity) ==
    LET subset == IsIn(d, ids) IN
       (IF DwtViolated(d, subset, demand) THEN << "dwt" >> ELSE << >>)
    \o (IF SafetyViolated(d, subset, t) THEN << "safety" >> ELSE << >>)
    \o (IF diversity /\ FuelViolated(d, subset) THEN << "fuel" >> ELSE << >>)

validate_fleet(d, ids, demand, t, diversity) ==
    LET errs == ValidationErrors(d, ids, demand, t, diversity)
    IN  << Len(errs) = 0, errs >>

(***************************************************************************)
(* total_cost_and_metrics.  The mean safety is kept as the fraction         *)
(* <<sum, count>>.                                                         *)
(***************************************************************************)
total_cost_and_metrics(d, ids) ==
    LET subset == IsIn(d, ids) IN
    [ total_dwt |-> lpSum(Column(d, "dwt"), subset),
      total_cost_usd |-> lpSum(Column(d, "final_cost"), subset),
      avg_safety_score |-> << lpSum(Column(d, "safety_score"), subset), Cardinality(subset) >>,
      num_unique_main_engine_fuel_types |-> Cardinality(FuelTypes(d, subset)),
      fleet_size |-> Len(ids),
      total_co2e_tonnes |-> lpSum(Column(d, "CO2eq"), subset) ]

(***************************************************************************)
(* select_fleet_milp: the formulation handed to the solver.                *)
(***************************************************************************)
\* safety_deltas = df["safety_score"] - min_avg_safety, in tenths.
SafetyDeltas(d, t) == [i \in Indices(d) |-> 10 * d[i].safety_score - t]

\* Faulty variant: the demand must be exceeded, not met.
DwtConstraint_Strict(d, demand, X) == lpSum(Column(d, "dwt"), X) > demand

\* Faulty variant: the capacity must stay at or below the demand.
DwtConstraint_Reversed(d, demand, X) == lpSum(Column(d, "dwt"), X) <= demand

\* Constraint "DWT": sum dwt_i x_i >= cargo_demand
DwtConstraint(d, demand, X) == lpSum(Column(d, "dwt"), X) >= demand

\* Faulty variant: the safety constraint is left out of the problem.
SafetyConstraint_Dropped(d, t, X) == TRUE

\* Faulty variant: every selected vessel must reach the threshold on its own.
SafetyConstraint_PerVessel(d, t, X) == \A i \in X : 10 * d[i].safety_score - t >= 0

\* Faulty variant: the deltas must sum to at most 0.
SafetyConstraint_Reversed(d, t, X) ==
    lpSum([i \in 1..Len(d) |-> 10 * d[i].safety_score - t], X) <= 0

\* Constraint "Safety": sum (safety_i - min_avg_safety) x_i >= 0
SafetyConstraint(d, t, X) == lpSum(SafetyDeltas(d, t), X) >= 0

\* Faulty variant: the fuel constraints ask for >= 0 vessels per type.
FuelConstraint_Vacuous(d, X) ==
    \A ft \in { d[i].main_engine_fuel_type : i \in 1..Len(d) } :
        Cardinality({ i \in X : d[i].main_engine_fuel_type = ft }) >= 0

\* Constraints "Fuel_<ft>": for each fuel type of the pool, sum of its x_i >= 1
FuelConstraint(d, X) ==
    \A ft \in FuelTypes(d, Indices(d)) :
        LET ft_indices == { i \in Indices(d) : d[i].main_engine_fuel_type = ft }
        IN  Cardinality(ft_indices \cap X) >= 1

\* Faulty variant: the cap is left out of the problem.
Co2CapConstraint_Dropped(d, cap, X) == TRUE

\* Constraint "CO2_cap": sum co2eq_i x_i <= co2_cap
Co2CapConstraint(d, cap, X) == lpSum(Column(d, "CO2eq"), X) <= cap

MilpFeasible(d, demand, t, diversity, cap, X) ==
    /\ DwtConstraint(d, demand, X)
    /\ SafetyConstraint(d, t, X)
    /\ (diversity => FuelConstraint(d, X))
    /\ (cap # None => Co2CapConstraint(d, TheVal(cap), X))

\* Faulty variant: the objective sums the dwt column instead of the cost column.
MilpObjective_WrongColumn(d, X) == lpSum(Column(d, "dwt"), X)

\* Objective: sum cost_i x_i
MilpObjective(d, X) == lpSum(Column(d, "final_cost"), X)

\* Faulty variant: the solver stops at any feasible point.
MilpSolve_AnyFeasible(d, demand, t, diversity, cap) ==
    LET feasible == { X \in SUBSET (1..Len(d)) : MilpFeasible(d, demand, t, diversity, cap, X) }
    IN  IF feasible = {}
        THEN { << LpStatusInfeasible, X >> : X \in SUBSET (1..Len(d)) }
        ELSE { << LpStatusOptimal, X >> : X \in feasible }

\* prob.solve: the outcomes <<status, X>> an exact solver can end in.  On an
\* infeasible problem the variables' values are whatever the solver left.
MilpSolve(d, demand, t, diversity, cap) ==
    LET feasible == { X \in SUBSET Indices(d) : MilpFeasible(d, demand, t, diversity, cap, X) }
        best == { X \in feasible : \A Y \in feasible : MilpObjective(d, X) <= MilpObjective(d, Y) }
    IN  IF feasible = {}
        THEN { << LpStatusInfeasible, X >> : X \in SUBSET Indices(d) }
        ELSE { << LpStatusOptimal, X >> : X \in best }

\* Faulty variant: the vessels whose x_i is 0 are listed.
SelectedIds_Inverted(d, X) == Sorted(SubSeqOf(Column(d, "vessel_id"), (1..Len(d)) \ X, 1))

\* The ids of the rows whose x_i is 1, sorted.
SelectedIds(d, X) == Sorted(SubSeqOf(Column(d, "vessel_id"), X, 1))

\* Faulty variant: the status is not looked at.
MilpReturn_IgnoresStatus(d, st, X) == Sorted(SubSeqOf(Column(d, "vessel_id"), X, 1))

\* What select_fleet_milp returns for a solver outcome.
MilpReturn(d, st, X) == IF st # LpStatusOptimal THEN << >> ELSE SelectedIds(d, X)

(***************************************************************************)
(* select_fleet_minmax_milp: the formulation handed to the solver.         *)
(***************************************************************************)
\* Faulty variant: the loosest threshold of the scenario set is taken.
MinAvgSafetyRobust_Loosest(scs) == Min({ scs[s].min_avg_safety : s \in 1..Len(scs) })

\* min_avg_safety_robust = max over the scenarios of min_avg_safety
MinAvgSafetyRobust(scs) == Max({ scs[s].min_avg_safety : s \in 1..Len(scs) })

\* Faulty variant: only the first scenario's cost is bounded by Z.
RobustCostConstraint_FirstOnly(d, scs, X, Z) ==
    lpSum([i \in 1..Len(d) |-> d[i].final_cost - d[i].carbon_cost
                                  + d[i].CO2eq * scs[1].carbon_price], X) <= Z

\* Constraints "Cost_<sname>": for each scenario, sum c[i,s] x_i <= Z
RobustCostConstraint(d, scs, X, Z) ==
    LET cost_matrix == build_scenario_cost_matrix(d, scs)
    IN  \A s \in 1..Len(scs) : lpSum(cost_matrix[s], X) <= Z

\* The DWT, Safety (strictest threshold) and Fuel constraints of the robust problem.
MinmaxStructural(d, scs, demand, diversity, X) ==
    /\ DwtConstraint(d, demand, X)
    /\ SafetyConstraint(d, MinAvgSafetyRobust(scs), X)
    /\ (diversity => FuelConstraint(d, X))

\* The least Z >= 0 (Z_var's lower bound) that satisfies the cost constraints at X.
LeastZ(d, scs, X) ==
    LET cost_matrix == build_scenario_cost_matrix(d, scs)
        candidates == {0} \cup { lpSum(cost_matrix[s], X) : s \in 1..Len(scs) }
    IN  CHOOSE Z \in candidates : Z >= 0 /\ RobustCostConstraint(d, scs, X, Z)
                                  /\ \A W \in candidates :
                                        (W >= 0 /\ RobustCostConstraint(d, scs, X, W)) => Z <= W

\* prob.solve: the outcomes <<status, X, Z>> an exact solver can end in: Z is the
\* least objective value, X any 0/1 point that is feasible together with it.
MinmaxSolve(d, scs, demand, diversity) ==
    LET feasible == { X \in SUBSET Indices(d) : MinmaxStructural(d, scs, demand, diversity, X) }
        zs == { LeastZ(d, scs, X) : X \in feasible }
    IN  IF feasible = {}
        THEN { << LpStatusInfeasible, X, None >> : X \in SUBSET Indices(d) }
        ELSE { << LpStatusOptimal, X, Some(Min(zs)) >> :
                 X \in { Y \in feasible : RobustCostConstraint(d, scs, Y, Min(zs)) } }

\* What select_fleet_minmax_milp returns for a solver outcome: <<selected, z_value>>.
MinmaxReturn(d, st, X, Z) ==
    IF st # LpStatusOptimal THEN << << >>, None >> ELSE << SelectedIds(d, X), Z >>

(***************************************************************************)
(* The state machine: one call of an entry point, then the checks the      *)
(* callers and tests run on its result.                                    *)
(***************************************************************************)
Fresh ==
    /\ pc = "start"
    /\ status = None
    /\ selected = << >>
    /\ z_value = None
    /\ ok = None
    /\ errors = << >>
    /\ cost_by_scenario = << >>

\* No analysis has run, nothing was raised, printed or saved.
Idle ==
    /\ solves = << >>
    /\ results = << >>
    /\ result = None
    /\ raised = None
    /\ printed = {}
    /\ metrics = None
    /\ saved = None
    /\ epsilons = << >>
    /\ df_copy = None

\* The call is not run_pareto_sweep or run_carbon_price_sweep.
NoSweepArguments ==
    /\ n_points = None
    /\ carbon_prices = << >>

ExactCall(pools, demands, floors, caps) ==
    /\ call = "select_fleet_milp"
    /\ df \in pools
    /\ cargo_demand \in demands
    /\ min_avg_safety \in { Some(t) : t \in floors }
    /\ require_all_fuel_types \in BOOLEAN
    /\ co2_cap \in caps
    /\ scenarios = << >>

RobustCall(pools, demands, scenarioSets) ==
    /\ call = "select_fleet_minmax_milp"
    /\ df \in pools
    /\ cargo_demand \in demands
    /\ min_avg_safety = None
    /\ require_all_fuel_types \in BOOLEAN
    /\ co2_cap = None
    /\ scenarios \in scenarioSets

FixtureCo2Caps == {None, Some(60000), Some(130000)}

\* A call on a pool of the catalogue, or a call of the test suite's kind on the
\* checkpoint fixture.
Init ==
    /\ \/ ExactCall(Pools, Demands, Thresholds, Co2Caps)
       \/ RobustCall(Pools, Demands, ScenarioSets)
       \/ ExactCall({FixtureVessels}, FixtureDemands, FixtureThresholds, FixtureCo2Caps)
       \/ RobustCall({FixtureVessels}, FixtureDemands, FixtureScenarioSets)
    /\ thresholds = << >>
    /\ csv = None
    /\ Fresh
    /\ Idle
    /\ NoSweepArguments

\* select_fleet_milp(df, cargo_demand, min_avg_safety, require_all_fuel_types, co2_cap)
SelectFleetMilp ==
    /\ pc = "start"
    /\ call = "select_fleet_milp"
    /\ \E out \in MilpSolve(df, cargo_demand, TheVal(min_avg_safety),
                            require_all_fuel_types, co2_cap) :
          /\ status' = Some(out[1])
          /\ selected' = MilpReturn(df, out[1], out[2])
    /\ pc' = "returned"
    /\ UNCHANGED <<call, df, cargo_demand, min_avg_safety, require_all_fuel_types,
                   co2_cap, scenarios, z_value, ok, errors, cost_by_scenario>>
    /\ UNCHANGED analysisVars

\* select_fleet_minmax_milp(df, scenarios, cargo_demand, require_all_fuel_types)
SelectFleetMinmaxMilp ==
    /\ pc = "start"
    /\ call = "select_fleet_minmax_milp"
    /\ \E out \in MinmaxSolve(df, scenarios, cargo_demand, require_all_fuel_types) :
          LET ret == MinmaxReturn(df, out[1], out[2], out[3]) IN
          /\ status' = Some(out[1])
          /\ selected' = ret[1]
          /\ z_value' = ret[2]
    /\ pc' = "returned"
    /\ UNCHANGED <<call, df, cargo_demand, min_avg_safety, require_all_fuel_types,
                   co2_cap, scenarios, ok, errors, cost_by_scenario>>
    /\ UNCHANGED analysisVars

\* The threshold the result is validated against: the call's own, or the
\* strictest scenario's for the robust call.
ValidationThreshold ==
    IF call = "select_fleet_minmax_milp" THEN MinAvgSafetyRobust(scenarios)
    ELSE TheVal(min_avg_safety)

\* validate_fleet on the returned selection, with the call's pool, demand and flag.
ValidateFleet ==
    /\ pc = "returned"
    /\ LET verdict == validate_fleet(df, selected, cargo_demand, ValidationThreshold,
                                     require_all_fuel_types) IN
          /\ ok' = Some(verdict[1])
          /\ errors' = verdict[2]
    /\ pc' = "validated"
    /\ UNCHANGED <<call, df, cargo_demand, min_avg_safety, require_all_fuel_types,
                   co2_cap, scenarios, status, selected, z_value, cost_by_scenario>>
    /\ UNCHANGED analysisVars

\* fleet_costs_by_scenario on the robust selection.
FleetCostsByScenario ==
    /\ pc = "validated"
    /\ call = "select_fleet_minmax_milp"
    /\ cost_by_scenario' = fleet_costs_by_scenario(df, scenarios, selected)
    /\ pc' = "costed"
    /\ UNCHANGED <<call, df, cargo_demand, min_avg_safety, require_all_fuel_types,
                   co2_cap, scenarios, status, selected, z_value, ok, errors>>
    /\ UNCHANGED analysisVars

Next == SelectFleetMilp \/ SelectFleetMinmaxMilp \/ ValidateFleet \/ FleetCostsByScenario

Spec == Init /\ [][Next]_vars

(***************************************************************************)
(* The analyses of src/src/sensitivity.py: each makes a sequence of calls  *)
(* of select_fleet_milp on the same pool.  A float that need not be a      *)
(* whole number of the unit is kept as the fraction <<numerator,           *)
(* denominator>>.                                                          *)
(***************************************************************************)
MaxThresholds == 3

\* thresholds = [3.0, 3.5, 4.0, 4.5]
DEFAULT_THRESHOLDS == << 30, 35, 40, 45 >>

RECURSIVE DistinctLists(_, _)
\* The lists of at most n distinct elements of S, in every order.
DistinctLists(S, n) ==
    IF n = 0 THEN { << >> }
    ELSE { << >> } \cup
         UNION { { << a >> \o l : l \in DistinctLists(S \ {a}, n - 1) } : a \in S }

ThresholdLists == DistinctLists(Thresholds, MaxThresholds) \cup { DEFAULT_THRESHOLDS }

\* One call of select_fleet_milp on the pool d that ended in the solver outcome out.
SolveRecord(d, demand, t, diversity, cap, out) ==
    [ cargo_demand |-> demand, min_avg_safety |-> t, require_all_fuel_types |-> diversity,
      co2_cap |-> cap, status |-> out[1], selected_ids |-> MilpReturn(d, out[1], out[2]) ]

\* subset["main_engine_fuel_type"].value_counts().to_dict(), as pairs <<type, count>>.
ValueCounts(d, rows) ==
    { << ft, Cardinality({ i \in rows : d[i].main_engine_fuel_type = ft }) >> :
        ft \in FuelTypes(d, rows) }

\* run_safety_sweep: the record appended for threshold t and the returned ids.
\* (total_fuel_tonnes is left out: the model carries no FC_total column.)
SweepRecord(d, t, ids) ==
    IF ids = << >>
    THEN [ threshold |-> t, feasible |-> FALSE, fleet_size |-> None, total_cost_usd |-> None,
           avg_safety_score |-> None, total_co2e_tonnes |-> None, total_dwt |-> None,
           fuel_type_counts |-> {}, selected_ids |-> << >> ]
    ELSE LET m == total_cost_and_metrics(d, ids) IN
         [ threshold |-> t, feasible |-> TRUE, fleet_size |-> Some(m.fleet_size),
           total_cost_usd |-> Some(m.total_cost_usd),
           avg_safety_score |-> Some(m.avg_safety_score),
           total_co2e_tonnes |-> Some(m.total_co2e_tonnes), total_dwt |-> Some(m.total_dwt),
           fuel_type_counts |-> ValueCounts(d, IsIn(d, ids)), selected_ids |-> ids ]

\* dwt_delta = cargo_demand * 0.01, in tonnes.
DwtDelta(demand) == << demand, 100 >>

\* perturbed_demand = cargo_demand + dwt_delta, in tonnes.
PerturbedDemand(demand) == << 100 * demand + DwtDelta(demand)[1], 100 >>

\* The least whole number >= the fraction q.  The left side of the DWT constraint
\* is a whole number of tonnes, so it is >= q exactly when it is >= Ceiling(q).
Ceiling(q) == -((-q[1]) \div q[2])

\* safety_delta = 0.1
SafetyDelta == << 1, 10 >>

\* perturbed_safety = safety_threshold + safety_delta, in tenths.
PerturbedSafety(t) == t + (10 * SafetyDelta[1]) \div SafetyDelta[2]

\* a / q for a whole number a and a fraction q.  The dividend is a numpy float64:
\* a zero divisor gives nan (<<0, 0>>) or inf with a warning, not an exception.
TrueDivide(a, q) == << a * q[2], q[1] >>

\* compute_shadow_prices: the dict returned when the base case has no fleet.
BaseCaseInfeasible ==
    [ base_cost |-> None, base_fleet_size |-> None, dwt_shadow_price |-> None,
      safety_shadow_price |-> None, perturbed_cost_dwt |-> None,
      perturbed_cost_safety |-> None, perturbed_fleet_size_dwt |-> None,
      perturbed_fleet_size_safety |-> None, dwt_perturbation |-> None,
      safety_perturbation |-> None, notes |-> { "base case infeasible" } ]

\* compute_shadow_prices: the dict after the base case; the keys the code adds
\* later are None until then.
BaseCaseResult(base_metrics) ==
    [ BaseCaseInfeasible EXCEPT !.base_cost = Some(base_metrics.total_cost_usd),
                                !.base_fleet_size = Some(base_metrics.fleet_size),
                                !.notes = {} ]

\* compute_shadow_prices: the keys set by the DWT demand perturbation.
DwtPerturbationResult(res, d, demand, dwt_ids) ==
    IF dwt_ids # << >>
    THEN LET dwt_metrics == total_cost_and_metrics(d, dwt_ids) IN
         [ res EXCEPT !.perturbed_cost_dwt = Some(dwt_metrics.total_cost_usd),
                      !.perturbed_fleet_size_dwt = Some(dwt_metrics.fleet_size),
                      !.dwt_perturbation = Some(DwtDelta(demand)),
                      !.dwt_shadow_price =
                          Some(TrueDivide(dwt_metrics.total_cost_usd - TheVal(res.base_cost),
                                          DwtDelta(demand))) ]
    ELSE [ res EXCEPT !.dwt_perturbation = Some(DwtDelta(demand)),
                      !.notes = @ \cup { "infeasible at +1% DWT perturbation" } ]

\* Faulty variant: the safety shadow price is given up when the DWT perturbation
\* had no shadow price.
SafetyPerturbationResult_NeedsDwt(res, d, safety_ids) ==
    IF safety_ids # << >> /\ res.dwt_shadow_price # None
    THEN LET safety_metrics == total_cost_and_metrics(d, safety_ids) IN
         [ res EXCEPT !.perturbed_cost_safety = Some(safety_metrics.total_cost_usd),
                      !.perturbed_fleet_size_safety = Some(safety_metrics.fleet_size),
                      !.safety_perturbation = Some(<< 1, 10 >>),
                      !.safety_shadow_price =
                          Some(<< (safety_metrics.total_cost_usd - TheVal(res.base_cost)) * 10,
                                  1 >>) ]
    ELSE [ res EXCEPT !.safety_perturbation = Some(<< 1, 10 >>),
                      !.notes = @ \cup { "infeasible at +0.1 safety perturbation" } ]

\* compute_shadow_prices: the keys set by the safety threshold perturbation.
SafetyPerturbationResult(res, d, safety_ids) ==
    IF safety_ids # << >>
    THEN LET safety_metrics == total_cost_and_metrics(d, safety_ids) IN
         [ res EXCEPT !.perturbed_cost_safety = Some(safety_metrics.total_cost_usd),
                      !.perturbed_fleet_size_safety = Some(safety_metrics.fleet_size),
                      !.safety_perturbation = Some(SafetyDelta),
                      !.safety_shadow_price =
                          Some(TrueDivide(safety_metrics.total_cost_usd - TheVal(res.base_cost),
                                          SafetyDelta)) ]
    ELSE [ res EXCEPT !.safety_perturbation = Some(SafetyDelta),
                      !.notes = @ \cup { "infeasible at +0.1 safety perturbation" } ]

\* run_diversity_whatif: one side of the comparison, from the ids its solve returned.
WhatifSide(d, ids) ==
    [ feasible |-> Len(ids) > 0,
      selected_ids |-> ids,
      metrics |-> IF ids # << >> THEN Some(total_cost_and_metrics(d, ids)) ELSE None,
      fuel_type_counts |-> IF ids # << >> THEN ValueCounts(d, IsIn(d, ids)) ELSE {},
      fuel_types |-> IF ids # << >> THEN FuelTypes(d, IsIn(d, ids)) ELSE {} ]

\* Faulty variant: the differences are taken the other way round.
WhatifResult_Swapped(d, with_ids, without_ids) ==
    LET w == WhatifSide(d, with_ids)
        wo == WhatifSide(d, without_ids)
        both == w.metrics # None /\ wo.metrics # None
    IN  [ with_diversity |-> w,
          without_diversity |-> wo,
          cost_savings |-> IF both THEN Some(TheVal(w.metrics).total_cost_usd
                                             - TheVal(wo.metrics).total_cost_usd)
                           ELSE None,
          fleet_size_diff |-> IF both THEN Some(TheVal(w.metrics).fleet_size
                                                - TheVal(wo.metrics).fleet_size)
                              ELSE None,
          fuel_types_lost |-> IF both THEN wo.fuel_types \ w.fuel_types ELSE {} ]

\* run_diversity_whatif: the returned dict.
WhatifResult(d, with_ids, without_ids) ==
    LET w == WhatifSide(d, with_ids)
        wo == WhatifSide(d, without_ids)
        both == w.metrics # None /\ wo.metrics # None
    IN  [ with_diversity |-> w,
          without_diversity |-> wo,
          cost_savings |-> IF both THEN Some(TheVal(wo.metrics).total_cost_usd
                                             - TheVal(w.metrics).total_cost_usd)
                           ELSE None,
          fleet_size_diff |-> IF both THEN Some(TheVal(wo.metrics).fleet_size
                                                - TheVal(w.metrics).fleet_size)
                              ELSE None,
          fuel_types_lost |-> IF both THEN w.fuel_types \ wo.fuel_types ELSE {} ]

\* A call of an analysis on a pool, with the demand and the safety threshold.
AnalysisCall(name, pools, demands, floors) ==
    /\ call = name
    /\ df \in pools
    /\ cargo_demand \in demands
    /\ min_avg_safety \in { Some(t) : t \in floors }
    /\ require_all_fuel_types = TRUE
    /\ co2_cap = None
    /\ scenarios = << >>
    /\ thresholds = << >>

\* run_safety_sweep(df, thresholds, cargo_demand)
SweepCall(pools, demands, lists) ==
    /\ call = "run_safety_sweep"
    /\ df \in pools
    /\ cargo_demand \in demands
    /\ min_avg_safety = None
    /\ require_all_fuel_types = TRUE
    /\ co2_cap = None
    /\ scenarios = << >>
    /\ thresholds \in lists

AnalysisInit ==
    /\ \/ ExactCall(Pools, Demands, Thresholds, Co2Caps) /\ thresholds = << >>
       \/ SweepCall(Pools, Demands, ThresholdLists)
       \/ AnalysisCall("compute_shadow_prices", Pools, Demands, Thresholds)
       \/ AnalysisCall("run_diversity_whatif", Pools, Demands, Thresholds)
    /\ csv = None
    /\ Fresh
    /\ Idle
    /\ NoSweepArguments

\* A second call of select_fleet_milp on the same pool, flag and cap, with the
\* same arguments or with another demand or another threshold.
SelectFleetMilpAgain ==
    /\ pc = "returned"
    /\ call = "select_fleet_milp"
    /\ \E demand \in Demands, t \in Thresholds :
          /\ demand = cargo_demand \/ t = TheVal(min_avg_safety)
          /\ \E out \in MilpSolve(df, demand, t, require_all_fuel_types, co2_cap) :
                solves' = Append(solves, SolveRecord(df, demand, t, require_all_fuel_types,
                                                     co2_cap, out))
    /\ pc' = "repeated"
    /\ UNCHANGED <<call, df, cargo_demand, min_avg_safety, require_all_fuel_types, co2_cap,
                   scenarios, status, selected, z_value, ok, errors, cost_by_scenario,
                   thresholds, results, result, csv, sweepVars, raised, printed, metrics, saved>>

\* run_safety_sweep: one turn of the loop over thresholds.
RunSafetySweepStep ==
    /\ pc = "start"
    /\ call = "run_safety_sweep"
    /\ Len(results) < Len(thresholds)
    /\ LET t == thresholds[Len(results) + 1] IN
       \E out \in MilpSolve(df, cargo_demand, t, TRUE, None) :
          LET rec == SolveRecord(df, cargo_demand, t, TRUE, None, out) IN
          /\ solves' = Append(solves, rec)
          /\ results' = Append(results, SweepRecord(df, t, rec.selected_ids))
    /\ UNCHANGED <<call, df, cargo_demand, min_avg_safety, require_all_fuel_types, co2_cap,
                   scenarios, pc, status, selected, z_value, ok, errors, cost_by_scenario,
                   thresholds, result, csv, sweepVars, raised, printed, metrics, saved>>

\* run_safety_sweep: return results.
RunSafetySweepReturn ==
    /\ pc = "start"
    /\ call = "run_safety_sweep"
    /\ Len(results) = Len(thresholds)
    /\ pc' = "returned"
    /\ UNCHANGED <<call, df, cargo_demand, min_avg_safety, require_all_fuel_types, co2_cap,
                   scenarios, status, selected, z_value, ok, errors, cost_by_scenario>>
    /\ UNCHANGED analysisVars

\* compute_shadow_prices: the base case.
ComputeShadowPricesBase ==
    /\ pc = "start"
    /\ call = "compute_shadow_prices"
    /\ \E out \in MilpSolve(df, cargo_demand, TheVal(min_avg_safety), TRUE, None) :
          LET rec == SolveRecord(df, cargo_demand, TheVal(min_avg_safety), TRUE, None, out)
              base_ids == rec.selected_ids
          IN  /\ solves' = Append(solves, rec)
              /\ IF base_ids = << >>
                 THEN result' = Some(BaseCaseInfeasible) /\ pc' = "returned"
                 ELSE /\ result' = Some(BaseCaseResult(total_cost_and_metrics(df, base_ids)))
                      /\ pc' = "dwt"
    /\ UNCHANGED <<call, df, cargo_demand, min_avg_safety, require_all_fuel_types, co2_cap,
                   scenarios, status, selected, z_value, ok, errors, cost_by_scenario,
                   thresholds, results, csv, sweepVars, raised, printed, metrics, saved>>

\* compute_shadow_prices: the DWT demand perturbation (+1%).
ComputeShadowPricesDwt ==
    /\ pc = "dwt"
    /\ call = "compute_shadow_prices"
    /\ LET perturbed_demand == Ceiling(PerturbedDemand(cargo_demand)) IN
       \E out \in MilpSolve(df, perturbed_demand, TheVal(min_avg_safety), TRUE, None) :
          LET rec == SolveRecord(df, perturbed_demand, TheVal(min_avg_safety), TRUE, None, out)
          IN  /\ solves' = Append(solves, rec)
              /\ result' = Some(DwtPerturbationResult(TheVal(result), df, cargo_demand,
                                                      rec.selected_ids))
    /\ pc' = "safety"
    /\ UNCHANGED <<call, df, cargo_demand, min_avg_safety, require_all_fuel_types, co2_cap,
                   scenarios, status, selected, z_value, ok, errors, cost_by_scenario,
                   thresholds, results, csv, sweepVars, raised, printed, metrics, saved>>

\* compute_shadow_prices: the safety threshold perturbation (+0.1), and the return.
ComputeShadowPricesSafety ==
    /\ pc = "safety"
    /\ call = "compute_shadow_prices"
    /\ LET perturbed_safety == PerturbedSafety(TheVal(min_avg_safety)) IN
       \E out \in MilpSolve(df, cargo_demand, perturbed_safety, TRUE, None) :
          LET rec == SolveRecord(df, cargo_demand, perturbed_safety, TRUE, None, out)
          IN  /\ solves' = Append(solves, rec)
              /\ result' = Some(SafetyPerturbationResult(TheVal(result), df, rec.selected_ids))
    /\ pc' = "returned"
    /\ UNCHANGED <<call, df, cargo_demand, min_avg_safety, require_all_fuel_types, co2_cap,
                   scenarios, status, selected, z_value, ok, errors, cost_by_scenario,
                   thresholds, results, csv, sweepVars, raised, printed, metrics, saved>>

\* run_diversity_whatif: the solve with the diversity constraint.
RunDiversityWhatifWith ==
    /\ pc = "start"
    /\ call = "run_diversity_whatif"
    /\ \E out \in MilpSolve(df, cargo_demand, TheVal(min_avg_safety), TRUE, None) :
          solves' = Append(solves, SolveRecord(df, cargo_demand, TheVal(min_avg_safety),
                                               TRUE, None, out))
    /\ pc' = "without"
    /\ UNCHANGED <<call, df, cargo_demand, min_avg_safety, require_all_fuel_types, co2_cap,
                   scenarios, status, selected, z_value, ok, errors, cost_by_scenario,
                   thresholds, results, result, csv, sweepVars, raised, printed, metrics, saved>>

\* run_diversity_whatif: the solve without the diversity constraint, and the
\* comparison that is returned.
RunDiversityWhatifWithout ==
    /\ pc = "without"
    /\ call = "run_diversity_whatif"
    /\ \E out \in MilpSolve(df, cargo_demand, TheVal(min_avg_safety), FALSE, None) :
          LET rec == SolveRecord(df, cargo_demand, TheVal(min_avg_safety), FALSE, None, out)
          IN  /\ solves' = Append(solves, rec)
              /\ result' = Some(WhatifResult(df, solves[1].selected_ids, rec.selected_ids))
    /\ pc' = "returned"
    /\ UNCHANGED <<call, df, cargo_demand, min_avg_safety, require_all_fuel_types, co2_cap,
                   scenarios, status, selected, z_value, ok, errors, cost_by_scenario,
                   thresholds, results, csv, sweepVars, raised, printed, metrics, saved>>

AnalysisNext ==
    \/ SelectFleetMilp
    \/ SelectFleetMilpAgain
    \/ RunSafetySweepStep
    \/ RunSafetySweepReturn
    \/ ComputeShadowPricesBase
    \/ ComputeShadowPricesDwt
    \/ ComputeShadowPricesSafety
    \/ RunDiversityWhatifWith
    \/ RunDiversityWhatifWithout

AnalysisSpec == AnalysisInit /\ [][AnalysisNext]_vars

(***************************************************************************)
(* validate_fleet called directly on a list of ids, as the tests and       *)
(* run.py call it.                                                         *)
(***************************************************************************)
\* A vessel id that no row of the catalogue carries.
UnknownId == 99

\* The lists of ids a caller may hand over: any of the pool's ids, in pool
\* order, with or without an id the pool does not hold.
Selections(d) ==
    LET ids == Column(d, "vessel_id") \o << UnknownId >>
    IN  { SubSeqOf(ids, keep, 1) : keep \in SUBSET (1..Len(ids)) }

\* validate_fleet(df, selected_ids, cargo_demand_tonnes, min_avg_safety, require_all_fuel_types)
ValidateInit ==
    /\ call = "validate_fleet"
    /\ df \in Pools
    /\ selected \in Selections(df)
    /\ cargo_demand \in Demands
    /\ min_avg_safety \in { Some(t) : t \in Thresholds }
    /\ require_all_fuel_types \in BOOLEAN
    /\ co2_cap = None
    /\ scenarios = << >>
    /\ thresholds = << >>
    /\ csv = None
    /\ pc = "returned"
    /\ status = None
    /\ z_value = None
    /\ ok = None
    /\ errors = << >>
    /\ cost_by_scenario = << >>
    /\ Idle
    /\ NoSweepArguments

ValidateNext == ValidateFleet

ValidateSpec == ValidateInit /\ [][ValidateNext]_vars

(***************************************************************************)
(* run.py main: load the vessel table, select a fleet, validate it, print  *)
(* the results and save the chosen fleet.                                  *)
(***************************************************************************)
REQUIRED_COLUMNS ==
    { "vessel_id", "dwt", "safety_score", "main_engine_fuel_type", "FC_me_total",
      "FC_ae_total", "FC_ab_total", "FC_total", "CO2eq", "fuel_cost", "carbon_cost",
      "monthly_capex", "total_monthly", "adj_rate", "risk_premium", "final_cost" }

\* What pd.read_csv returns: the column names and the rows.
Table(columns, rows) == [ columns |-> columns, rows |-> rows ]

\* The tables main may find: the pools, and pools with a required column
\* missing, with the id of one row repeated in another, with a final_cost or a
\* CO2eq that is not positive.
CsvTables ==
    { Table(REQUIRED_COLUMNS, p) : p \in Pools }
    \cup { Table(REQUIRED_COLUMNS \ {c}, p) : c \in REQUIRED_COLUMNS, p \in Pools }
    \cup UNION { { Table(REQUIRED_COLUMNS, [p EXCEPT ![j].vessel_id = p[i].vessel_id]) :
                     i \in 1..Len(p), j \in 1..Len(p) } : p \in Pools }
    \cup UNION { { Table(REQUIRED_COLUMNS, [p EXCEPT ![i].final_cost = c]) :
                     i \in 1..Len(p), c \in {0, -100} } : p \in Pools }
    \cup UNION { { Table(REQUIRED_COLUMNS, [p EXCEPT ![i].CO2eq = 0]) :
                     i \in 1..Len(p) } : p \in Pools }

\* load_per_vessel: <<exception, df>>.  (No NaN occurs in the tables above.)
load_per_vessel(table) ==
    IF REQUIRED_COLUMNS \ table.columns # {}
    THEN << Some("ValueError: Missing required columns"), << >> >>
    ELSE IF ~(\A i \in 1..Len(table.rows) : table.rows[i].final_cost > 0)
    THEN << Some("ValueError: All final_cost values must be > 0"), << >> >>
    ELSE IF ~(\A i \in 1..Len(table.rows) : table.rows[i].CO2eq > 0)
    THEN << Some("ValueError: All CO2eq values must be > 0"), << >> >>
    ELSE << None, table.rows >>

\* run_fleet_selection, given the selector's return: <<selected_ids, metrics>>.
run_fleet_selection(d, selected_ids) ==
    IF selected_ids = << >> THEN << << >>, None >>
    ELSE << selected_ids, Some(total_cost_and_metrics(d, selected_ids)) >>

\* python run.py --data <csv> --cargo-demand <d> --safety-threshold <t>
MainInit ==
    /\ call = "main"
    /\ csv \in { Some(t) : t \in CsvTables }
    /\ df = << >>
    /\ cargo_demand \in Demands
    /\ min_avg_safety \in { Some(t) : t \in Thresholds }
    /\ require_all_fuel_types = TRUE
    /\ co2_cap = None
    /\ scenarios = << >>
    /\ thresholds = << >>
    /\ Fresh
    /\ Idle
    /\ NoSweepArguments

\* df = load_per_vessel(args.data)
MainLoadPerVessel ==
    /\ pc = "start"
    /\ call = "main"
    /\ LET loaded == load_per_vessel(TheVal(csv)) IN
       IF loaded[1] # None
       THEN raised' = loaded[1] /\ pc' = "exited" /\ df' = df
       ELSE raised' = raised /\ pc' = "loaded" /\ df' = loaded[2]
    /\ UNCHANGED <<call, cargo_demand, min_avg_safety, require_all_fuel_types, co2_cap,
                   scenarios, status, selected, z_value, ok, errors, cost_by_scenario,
                   solves, thresholds, results, result, csv, sweepVars, printed, metrics, saved>>

\* selected_ids, metrics = run_fleet_selection(...); if not selected_ids:
\* print INFEASIBLE and sys.exit(1).
MainRunFleetSelection ==
    /\ pc = "loaded"
    /\ call = "main"
    /\ \E out \in MilpSolve(df, cargo_demand, TheVal(min_avg_safety), TRUE, None) :
          LET rec == SolveRecord(df, cargo_demand, TheVal(min_avg_safety), TRUE, None, out)
              ret == run_fleet_selection(df, rec.selected_ids)
          IN  /\ solves' = Append(solves, rec)
              /\ status' = Some(rec.status)
              /\ selected' = ret[1]
              /\ metrics' = ret[2]
              /\ IF ret[1] = << >>
                 THEN /\ printed' = printed \cup { "INFEASIBLE" }
                      /\ raised' = Some("SystemExit(1)")
                      /\ pc' = "exited"
                 ELSE /\ printed' = printed
                      /\ raised' = raised
                      /\ pc' = "selected"
    /\ UNCHANGED <<call, df, cargo_demand, min_avg_safety, require_all_fuel_types, co2_cap,
                   scenarios, z_value, ok, errors, cost_by_scenario,
                   thresholds, results, result, csv, sweepVars, saved>>

\* ok, errors = validate_fleet(df, selected_ids, demand, threshold, True); the
\* verdict is printed.
MainValidateFleet ==
    /\ pc = "selected"
    /\ call = "main"
    /\ LET verdict == validate_fleet(df, selected, cargo_demand, TheVal(min_avg_safety), TRUE) IN
          /\ ok' = Some(verdict[1])
          /\ errors' = verdict[2]
          /\ printed' = printed \cup { IF verdict[1] THEN "Fleet validation: PASS"
                                                    ELSE "Fleet validation: FAIL" }
    /\ pc' = "validated"
    /\ UNCHANGED <<call, df, cargo_demand, min_avg_safety, require_all_fuel_types, co2_cap,
                   scenarios, status, selected, z_value, cost_by_scenario,
                   solves, thresholds, results, result, csv, sweepVars, raised, metrics, saved>>

\* The metrics and the selected ids are printed.
MainPrintResults ==
    /\ pc = "validated"
    /\ call = "main"
    /\ printed' = printed \cup { "Fleet Selection Results", "Selected vessel IDs" }
    /\ pc' = "reported"
    /\ UNCHANGED <<call, df, cargo_demand, min_avg_safety, require_all_fuel_types, co2_cap,
                   scenarios, status, selected, z_value, ok, errors, cost_by_scenario,
                   solves, thresholds, results, result, csv, sweepVars, raised, metrics, saved>>

\* save_chosen_fleet(df, selected_ids, args.out_dir)
MainSaveChosenFleet ==
    /\ pc = "reported"
    /\ call = "main"
    /\ saved' = Some(selected)
    /\ pc' = "saved"
    /\ UNCHANGED <<call, df, cargo_demand, min_avg_safety, require_all_fuel_types, co2_cap,
                   scenarios, status, selected, z_value, ok, errors, cost_by_scenario,
                   solves, thresholds, results, result, csv, sweepVars, raised, printed, metrics>>

MainNext ==
    \/ MainLoadPerVessel
    \/ MainRunFleetSelection
    \/ MainValidateFleet
    \/ MainPrintResults
    \/ MainSaveChosenFleet

MainSpec == MainInit /\ [][MainNext]_vars

(***************************************************************************)
(* run_pareto_sweep and run_carbon_price_sweep (src/src/sensitivity.py).   *)
(***************************************************************************)
MaxPoints == 3
MaxPrices == 2

\* carbon_prices = [80, 120, 160, 200]
DEFAULT_CARBON_PRICES == << 80, 120, 160, 200 >>

CarbonPrices == {80, 120, 160}
CarbonPriceLists == DistinctLists(CarbonPrices, MaxPrices) \cup { DEFAULT_CARBON_PRICES }

\* A pool that was built without the carbon_cost column.
WithoutCarbonCost(d) ==
    [i \in Indices(d) |->
        [c \in DOMAIN d[i] \ {"carbon_cost"} |-> d[i][c]]]

\* _solve_min_co2's prob.solve: the outcomes <<status, X>> of minimising the
\* total CO2eq under the DWT, Safety and Fuel constraints.
MinCo2Solve(d, demand, t, diversity) ==
    LET feasible == { X \in SUBSET Indices(d) :
                        /\ DwtConstraint(d, demand, X)
                        /\ SafetyConstraint(d, t, X)
                        /\ (diversity => FuelConstraint(d, X)) }
        co2eqs == Column(d, "CO2eq")
        best == { X \in feasible : \A Y \in feasible : lpSum(co2eqs, X) <= lpSum(co2eqs, Y) }
    IN  IF feasible = {}
        THEN { << LpStatusInfeasible, X >> : X \in SUBSET Indices(d) }
        ELSE { << LpStatusOptimal, X >> : X \in best }

\* What _solve_min_co2 returns for a solver outcome: None or Some(selected_co2).
MinCo2Return(d, st, X) ==
    IF st # LpStatusOptimal THEN None ELSE Some(lpSum(Column(d, "CO2eq"), X))

\* The call of _solve_min_co2 that ended in the solver outcome out.
MinCo2Record(d, demand, t, diversity, out) ==
    [ objective |-> "CO2eq", cargo_demand |-> demand, min_avg_safety |-> t,
      require_all_fuel_types |-> diversity, co2_cap |-> None, status |-> out[1],
      co2_min |-> MinCo2Return(d, out[1], out[2]) ]

\* Faulty variant: the grid runs upwards from co2_min to co2_max.
Linspace_Ascending(start, stop, num) ==
    [k \in 1..num |-> IF num = 1 THEN << stop, 1 >>
                      ELSE << stop * (num - 1) + (k - 1) * (start - stop), num - 1 >>]

\* np.linspace(start, stop, num).tolist(): num evenly spaced values, the first
\* start and (for num > 1) the last stop, as fractions over num - 1.
Linspace(start, stop, num) ==
    [k \in 1..num |-> IF num = 1 THEN << start, 1 >>
                      ELSE << start * (num - 1) + (k - 1) * (stop - start), num - 1 >>]

\* The greatest whole number <= the fraction q (q[2] > 0).  The left side of the
\* CO2_cap constraint is a whole number of units, so it is <= q exactly when it
\* is <= Floor(q).
Floor(q) == q[1] \div q[2]

\* run_pareto_sweep: the record appended for the cap eps and the returned ids.
ParetoRecord(d, eps, ids) ==
    IF ids = << >>
    THEN [ epsilon |-> eps, feasible |-> FALSE, fleet_size |-> None, total_cost_usd |-> None,
           total_co2e_tonnes |-> None, avg_safety_score |-> None, total_dwt |-> None,
           selected_ids |-> << >>, shadow_carbon_price |-> None ]
    ELSE LET m == total_cost_and_metrics(d, ids) IN
         [ epsilon |-> eps, feasible |-> TRUE, fleet_size |-> Some(m.fleet_size),
           total_cost_usd |-> Some(m.total_cost_usd),
           total_co2e_tonnes |-> Some(m.total_co2e_tonnes),
           avg_safety_score |-> Some(m.avg_safety_score), total_dwt |-> Some(m.total_dwt),
           selected_ids |-> ids, shadow_carbon_price |-> None ]

\* Faulty variant: the quotient is taken whenever the reduction is not negative.
ShadowCarbonPrice_Unguarded(prev_feasible, r) ==
    LET co2_reduction == TheVal(prev_feasible.total_co2e_tonnes) - TheVal(r.total_co2e_tonnes)
        cost_increase == TheVal(r.total_cost_usd) - TheVal(prev_feasible.total_cost_usd)
    IN  IF co2_reduction >= 0 THEN Some(<< cost_increase, co2_reduction >>) ELSE None

\* Step 5, for the feasible record r and the feasible record before it: the
\* quotient cost_increase / co2_reduction as <<dividend, divisor>>, or None.
ShadowCarbonPrice(prev_feasible, r) ==
    LET co2_reduction == TheVal(prev_feasible.total_co2e_tonnes) - TheVal(r.total_co2e_tonnes)
        cost_increase == TheVal(r.total_cost_usd) - TheVal(prev_feasible.total_cost_usd)
    IN  IF co2_reduction > 0 THEN Some(<< cost_increase, co2_reduction >>) ELSE None

\* Step 5: the loop over results that carries prev_feasible.
WithShadowPrices(rs) ==
    [k \in 1..Len(rs) |->
        LET before == { j \in 1..(k - 1) : rs[j].feasible } IN
        IF ~rs[k].feasible \/ before = {} THEN rs[k]
        ELSE [ rs[k] EXCEPT !.shadow_carbon_price = ShadowCarbonPrice(rs[Max(before)], rs[k]) ]]

\* Faulty variant: the new carbon cost is added to the running final_cost
\* without taking the original carbon cost out.
AdjustedCopy_KeepsCarbon(d, cp) ==
    [i \in 1..Len(d) |-> [d[i] EXCEPT !.final_cost = d[i].final_cost + d[i].CO2eq * cp]]

\* Faulty variant: the copy is taken from the previous point's df_copy, so the
\* adjustments accumulate from point to point.
AdjustedCopy_FromPrevious(d, cp) ==
    LET src == IF df_copy = None THEN d ELSE TheVal(df_copy) IN
    [i \in 1..Len(src) |->
        [src[i] EXCEPT !.final_cost = src[i].final_cost - src[i].CO2eq * CARBON_PRICE
                                      + src[i].CO2eq * cp]]

\* df_copy after df_copy["final_cost"] =
\*     df_copy["final_cost"] - original_carbon_cost + df_copy["CO2eq"] * cp
AdjustedCopy(d, cp) ==
    LET original_carbon_cost ==
            [i \in Indices(d) |-> IF "carbon_cost" \in DOMAIN d[i] THEN d[i].carbon_cost
                                  ELSE d[i].CO2eq * CARBON_PRICE]
    IN  [i \in Indices(d) |->
            [d[i] EXCEPT !.final_cost = d[i].final_cost - original_carbon_cost[i]
                                        + d[i].CO2eq * cp]]

\* Faulty variant: df_copy = df, the assignment to final_cost writes through to
\* the caller's pool.
CallerPool_Aliased(d, copy) == copy

\* df_copy = df.copy(): the caller's pool after the assignment to the copy.
CallerPool(d, copy) == d

\* run_carbon_price_sweep: the record appended for the price cp, from the
\* adjusted copy and the returned ids.
CarbonSweepRecord(copy, cp, ids) ==
    IF ids = << >>
    THEN [ carbon_price |-> cp, feasible |-> FALSE, fleet_size |-> None,
           total_cost_usd |-> None, total_co2e_tonnes |-> None, avg_safety_score |-> None,
           total_dwt |-> None, selected_ids |-> << >>, fuel_type_counts |-> {} ]
    ELSE LET m == total_cost_and_metrics(copy, ids) IN
         [ carbon_price |-> cp, feasible |-> TRUE, fleet_size |-> Some(m.fleet_size),
           total_cost_usd |-> Some(m.total_cost_usd),
           total_co2e_tonnes |-> Some(m.total_co2e_tonnes),
           avg_safety_score |-> Some(m.avg_safety_score), total_dwt |-> Some(m.total_dwt),
           selected_ids |-> ids, fuel_type_counts |-> ValueCounts(copy, IsIn(copy, ids)) ]

\* run_pareto_sweep(df, n_points, cargo_demand, min_avg_safety, require_all_fuel_types)
ParetoCall(pools, demands, floors, points) ==
    /\ call = "run_pareto_sweep"
    /\ df \in pools
    /\ cargo_demand \in demands
    /\ min_avg_safety \in { Some(t) : t \in floors }
    /\ require_all_fuel_types \in BOOLEAN
    /\ co2_cap = None
    /\ scenarios = << >>
    /\ thresholds = << >>
    /\ n_points \in { Some(n) : n \in points }
    /\ carbon_prices = << >>

\* run_carbon_price_sweep(df, carbon_prices, cargo_demand, safety_threshold)
CarbonSweepCall(pools, demands, floors, lists) ==
    /\ call = "run_carbon_price_sweep"
    /\ df \in pools
    /\ cargo_demand \in demands
    /\ min_avg_safety \in { Some(t) : t \in floors }
    /\ require_all_fuel_types = TRUE
    /\ co2_cap = None
    /\ scenarios = << >>
    /\ thresholds = << >>
    /\ n_points = None
    /\ carbon_prices \in lists

\* build_scenario_cost_matrix(df, scenarios)
MatrixCall(pools, scenarioSets) ==
    /\ call = "build_scenario_cost_matrix"
    /\ df \in pools
    /\ cargo_demand = 0
    /\ min_avg_safety = None
    /\ require_all_fuel_types = FALSE
    /\ co2_cap = None
    /\ scenarios \in scenarioSets
    /\ thresholds = << >>
    /\ NoSweepArguments

\* The pools of the sweeps: those of the catalogue, and the small ones again
\* without their carbon_cost column.
SmallPools == SubTables(Catalogue, 2)
SweepPools == Pools \cup { WithoutCarbonCost(d) : d \in SmallPools }

\* A sweep, a robust call or a matrix call on a pool of the catalogue, or one of
\* the other entry points on a small pool.
SweepInit ==
    /\ \/ ParetoCall(Pools, Demands, Thresholds, 1..MaxPoints)
       \/ CarbonSweepCall(SweepPools, Demands, Thresholds, CarbonPriceLists)
       \/ RobustCall(SweepPools, Demands, ScenarioSets) /\ thresholds = << >> /\ NoSweepArguments
       \/ MatrixCall(SweepPools, ScenarioSets)
       \/ /\ \/ ExactCall(SmallPools, Demands, Thresholds, Co2Caps) /\ thresholds = << >>
             \/ SweepCall(SmallPools, Demands, ThresholdLists)
             \/ AnalysisCall("compute_shadow_prices", SmallPools, Demands, Thresholds)
             \/ AnalysisCall("run_diversity_whatif", SmallPools, Demands, Thresholds)
          /\ NoSweepArguments
    /\ csv = None
    /\ Fresh
    /\ Idle

\* run_pareto_sweep, step 1: the base solve without a cap.
RunParetoSweepBase ==
    /\ pc = "start"
    /\ call = "run_pareto_sweep"
    /\ \E out \in MilpSolve(df, cargo_demand, TheVal(min_avg_safety),
                            require_all_fuel_types, None) :
          LET rec == SolveRecord(df, cargo_demand, TheVal(min_avg_safety),
                                 require_all_fuel_types, None, out)
          IN  /\ solves' = Append(solves, rec)
              /\ pc' = IF rec.selected_ids = << >> THEN "returned" ELSE "min_co2"
    /\ UNCHANGED <<call, df, cargo_demand, min_avg_safety, require_all_fuel_types, co2_cap,
                   scenarios, status, selected, z_value, ok, errors, cost_by_scenario,
                   thresholds, results, result, csv, sweepVars, raised, printed, metrics, saved>>

\* run_pareto_sweep, steps 2 and 3: the min-CO2eq solve and the grid of caps.
RunParetoSweepMinCo2 ==
    /\ pc = "min_co2"
    /\ call = "run_pareto_sweep"
    /\ \E out \in MinCo2Solve(df, cargo_demand, TheVal(min_avg_safety), require_all_fuel_types) :
          LET rec == MinCo2Record(df, cargo_demand, TheVal(min_avg_safety),
                                  require_all_fuel_types, out)
              base_metrics == total_cost_and_metrics(df, solves[1].selected_ids)
              co2_max == base_metrics.total_co2e_tonnes
          IN  /\ solves' = Append(solves, rec)
              /\ IF rec.co2_min = None
                 THEN epsilons' = epsilons /\ pc' = "returned"
                 ELSE /\ epsilons' = Linspace(co2_max, TheVal(rec.co2_min), TheVal(n_points))
                      /\ pc' = "grid"
    /\ UNCHANGED <<call, df, cargo_demand, min_avg_safety, require_all_fuel_types, co2_cap,
                   scenarios, status, selected, z_value, ok, errors, cost_by_scenario,
                   thresholds, results, result, csv, n_points, carbon_prices, df_copy,
                   raised, printed, metrics, saved>>

\* run_pareto_sweep, step 4: one turn of the loop over epsilons.
RunParetoSweepGridStep ==
    /\ pc = "grid"
    /\ call = "run_pareto_sweep"
    /\ Len(results) < Len(epsilons)
    /\ LET eps == epsilons[Len(results) + 1] IN
       \E out \in MilpSolve(df, cargo_demand, TheVal(min_avg_safety),
                            require_all_fuel_types, Some(Floor(eps))) :
          LET rec == SolveRecord(df, cargo_demand, TheVal(min_avg_safety),
                                 require_all_fuel_types, Some(Floor(eps)), out)
          IN  /\ solves' = Append(solves, rec)
              /\ results' = Append(results, ParetoRecord(df, eps, rec.selected_ids))
    /\ UNCHANGED <<call, df, cargo_demand, min_avg_safety, require_all_fuel_types, co2_cap,
                   scenarios, pc, status, selected, z_value, ok, errors, cost_by_scenario,
                   thresholds, result, csv, sweepVars, raised, printed, metrics, saved>>

\* run_pareto_sweep, step 5 and the return: the shadow carbon prices.
RunParetoSweepShadow ==
    /\ pc = "grid"
    /\ call = "run_pareto_sweep"
    /\ Len(results) = Len(epsilons)
    /\ results' = WithShadowPrices(results)
    /\ pc' = "returned"
    /\ UNCHANGED <<call, df, cargo_demand, min_avg_safety, require_all_fuel_types, co2_cap,
                   scenarios, status, selected, z_value, ok, errors, cost_by_scenario,
                   solves, thresholds, result, csv, sweepVars, raised, printed, metrics, saved>>

\* run_carbon_price_sweep: one turn of the loop over carbon_prices.
RunCarbonPriceSweepStep ==
    /\ pc = "start"
    /\ call = "run_carbon_price_sweep"
    /\ Len(results) < Len(carbon_prices)
    /\ LET cp == carbon_prices[Len(results) + 1]
           copy == AdjustedCopy(df, cp)
       IN  /\ df_copy' = Some(copy)
           /\ df' = CallerPool(df, copy)
           /\ \E out \in MilpSolve(copy, cargo_demand, TheVal(min_avg_safety), TRUE, None) :
                 LET rec == SolveRecord(copy, cargo_demand, TheVal(min_avg_safety),
                                        TRUE, None, out)
                 IN  /\ solves' = Append(solves, rec)
                     /\ results' = Append(results, CarbonSweepRecord(copy, cp, rec.selected_ids))
    /\ UNCHANGED <<call, cargo_demand, min_avg_safety, require_all_fuel_types, co2_cap,
                   scenarios, pc, status, selected, z_value, ok, errors, cost_by_scenario,
                   thresholds, result, csv, n_points, carbon_prices, epsilons,
                   raised, printed, metrics, saved>>

\* run_carbon_price_sweep: return results.
RunCarbonPriceSweepReturn ==
    /\ pc = "start"
    /\ call = "run_carbon_price_sweep"
    /\ Len(results) = Len(carbon_prices)
    /\ pc' = "returned"
    /\ UNCHANGED <<call, df, cargo_demand, min_avg_safety, require_all_fuel_types, co2_cap,
                   scenarios, status, selected, z_value, ok, errors, cost_by_scenario>>
    /\ UNCHANGED analysisVars

\* build_scenario_cost_matrix: the returned frame, one column per scenario.
BuildScenarioCostMatrix ==
    /\ pc = "start"
    /\ call = "build_scenario_cost_matrix"
    /\ result' = Some(build_scenario_cost_matrix(df, scenarios))
    /\ pc' = "returned"
    /\ UNCHANGED <<call, df, cargo_demand, min_avg_safety, require_all_fuel_types, co2_cap,
                   scenarios, status, selected, z_value, ok, errors, cost_by_scenario,
                   solves, thresholds, results, csv, sweepVars, raised, printed, metrics, saved>>

SweepNext ==
    \/ RunParetoSweepBase
    \/ RunParetoSweepMinCo2
    \/ RunParetoSweepGridStep
    \/ RunParetoSweepShadow
    \/ RunCarbonPriceSweepStep
    \/ RunCarbonPriceSweepReturn
    \/ SelectFleetMinmaxMilp
    \/ BuildScenarioCostMatrix
    \/ SelectFleetMilp
    \/ RunSafetySweepStep
    \/ RunSafetySweepReturn
    \/ ComputeShadowPricesBase
    \/ ComputeShadowPricesDwt
    \/ ComputeShadowPricesSafety
    \/ RunDiversityWhatifWith
    \/ RunDiversityWhatifWithout

SweepSpec == SweepInit /\ [][SweepNext]_vars

(***************************************************************************)
(* Properties.  The constraints are restated here from their wording, on   *)
(* the run's own inputs, independently of the formulation above.           *)
(***************************************************************************)
RECURSIVE SumField(_, _)
\* The sum of a column over the rows S of the pool.
SumField(S, col) ==
    IF S = {} THEN 0
    ELSE LET i == CHOOSE j \in S : TRUE IN df[i][col] + SumField(S \ {i}, col)

AllRows == 1..Len(df)
AllIds == { df[i].vessel_id : i \in AllRows }
SelectedSet == { selected[k] : k \in 1..Len(selected) }
SelectedRows == { i \in AllRows : df[i].vessel_id \in SelectedSet }
SelectedCost == SumField(SelectedRows, "final_cost")
IsExact == call = "select_fleet_milp"
IsRobust == call = "select_fleet_minmax_milp"
Solved == pc # "start"

\* Capacity sum >= demand.
MeetsDemand(S) == SumField(S, "dwt") >= cargo_demand
\* Sum over S of (safety_i - t) >= 0, t in tenths.
MeetsSafetySum(S, t) == 10 * SumField(S, "safety_score") - t * Cardinality(S) >= 0
\* Mean safety of S >= t (S not empty), t in tenths.
MeanSafetyAtLeast(S, t) == S # {} /\ 10 * SumField(S, "safety_score") >= t * Cardinality(S)
\* Every fuel type of the pool is represented in S.
CoversFuelTypes(S) ==
    \A i \in AllRows : \E j \in S : df[j].main_engine_fuel_type = df[i].main_engine_fuel_type
\* Emissions sum <= cap.
WithinCap(S) == co2_cap # None => SumField(S, "CO2eq") <= TheVal(co2_cap)

\* The subsets of the pool that satisfy the active constraints of the exact call.
ExactFeasibleSets ==
    { S \in SUBSET AllRows :
        /\ MeetsDemand(S)
        /\ MeetsSafetySum(S, TheVal(min_avg_safety))
        /\ (require_all_fuel_types => CoversFuelTypes(S))
        /\ WithinCap(S) }

\* C1: whenever some subset of the pool satisfies the active constraints,
\* select_fleet_milp returns a selection whose total final_cost is the minimum
\* total final_cost over all subsets that satisfy them.
C1_Optimality ==
    (IsExact /\ Solved /\ ExactFeasibleSets # {}) =>
        /\ \A S \in ExactFeasibleSets : SelectedCost <= SumField(S, "final_cost")
        /\ \E S \in ExactFeasibleSets : SelectedCost = SumField(S, "final_cost")

\* A capped, diversity-constrained solve that returned a fleet although a
\* dearer feasible one exists.
C1_Witness ==
    /\ IsExact /\ Solved /\ co2_cap # None /\ require_all_fuel_types
    /\ cargo_demand >= 1 /\ Len(selected) >= 2
    /\ \E S \in ExactFeasibleSets : SumField(S, "final_cost") > SelectedCost

\* C2: every non-empty selection returned by select_fleet_milp passes
\* validate_fleet with the same pool, demand, threshold and diversity flag:
\* capacity sum >= demand, mean safety >= threshold, every fuel type of the pool
\* represented if diversity is required; the verdict is (True, []).
C2_SelectionValidates ==
    (IsExact /\ pc = "validated" /\ selected # << >>) =>
        /\ ok = Some(TRUE)
        /\ errors = << >>
        /\ MeetsDemand(SelectedRows)
        /\ MeanSafetyAtLeast(SelectedRows, TheVal(min_avg_safety))
        /\ (require_all_fuel_types => CoversFuelTypes(SelectedRows))

\* A validated fleet whose mean safety is exactly the threshold, where a
\* cheaper fleet exists that meets the demand but not the threshold.
C2_Witness ==
    /\ IsExact /\ pc = "validated" /\ cargo_demand >= 1 /\ Len(selected) >= 2
    /\ 10 * SumField(SelectedRows, "safety_score")
          = TheVal(min_avg_safety) * Cardinality(SelectedRows)
    /\ \E S \in SUBSET AllRows :
          /\ MeetsDemand(S)
          /\ ~MeetsSafetySum(S, TheVal(min_avg_safety))
          /\ SumField(S, "final_cost") < SelectedCost

\* A cap-less exact call on the checkpoint fixture that has returned.
FixtureRun(demand, t, diversity) ==
    /\ IsExact /\ Solved
    /\ df = FixtureVessels
    /\ cargo_demand = demand
    /\ min_avg_safety = Some(t)
    /\ require_all_fuel_types = diversity
    /\ co2_cap = None

\* C3: when demand equals the pool's total capacity, the full pool meets the
\* safety floor and diversity is off (no cap), the only feasible selection is
\* the full set: all vessel ids are returned and the cost is the sum of all
\* costs; on the fixture with demand 855,421 and threshold 1.0 that is the 5 ids
\* and 5,526,543 USD.
C3_FullPoolAtTotalDemand ==
    /\ ( /\ IsExact /\ Solved /\ co2_cap = None /\ ~require_all_fuel_types
         /\ cargo_demand = SumField(AllRows, "dwt")
         /\ MeanSafetyAtLeast(AllRows, TheVal(min_avg_safety)) )
       => /\ ExactFeasibleSets = {AllRows}
          /\ SelectedSet = AllIds
          /\ Len(selected) = Len(df)
          /\ SelectedCost = SumField(AllRows, "final_cost")
    /\ FixtureRun(855421, 10, FALSE)
       => /\ SelectedSet = {10102950, 10657280, 10791900, 10522650, 10673120}
          /\ Len(selected) = 5
          /\ SelectedCost = 552654300

\* The fixture solved at demand = total DWT.
C3_Witness == FixtureRun(855421, 10, FALSE) /\ pc = "returned" /\ Len(selected) = 5

DearerPerCapacity(i, j) == df[i].final_cost \div df[i].dwt > df[j].final_cost \div df[j].dwt

\* C6: on the fixture with demand 700,000, threshold 1.0, diversity off, the
\* fleet is {10102950, 10657280, 10791900, 10673120}: only 10522650 (Methanol),
\* the dearest vessel per unit of capacity, is dropped; the cost is 4,370,409
\* USD, strictly below the full set's 5,526,543 USD.
C6_DropsMethanol ==
    FixtureRun(700000, 10, FALSE)
       => /\ SelectedSet = {10102950, 10657280, 10791900, 10673120}
          /\ Len(selected) = 4
          /\ AllIds \ SelectedSet = {10522650}
          /\ \A i \in AllRows : df[i].vessel_id = 10522650 =>
                /\ df[i].main_engine_fuel_type = "Methanol"
                /\ \A j \in AllRows \ {i} : DearerPerCapacity(i, j)
          /\ SelectedCost = 437040900
          /\ SelectedCost < SumField(AllRows, "final_cost")
          /\ SumField(AllRows, "final_cost") = 552654300

C6_Witness == FixtureRun(700000, 10, FALSE) /\ pc = "returned" /\ Len(selected) = 4

\* The strictest (largest) safety threshold of the scenario set.
StrictestThreshold ==
    CHOOSE t \in { scenarios[s].min_avg_safety : s \in 1..Len(scenarios) } :
        \A s \in 1..Len(scenarios) : scenarios[s].min_avg_safety <= t

\* The subsets of the pool that satisfy the structural constraints of the robust call.
RobustFeasibleSets ==
    { S \in SUBSET AllRows :
        /\ MeetsDemand(S)
        /\ MeetsSafetySum(S, StrictestThreshold)
        /\ (require_all_fuel_types => CoversFuelTypes(S)) }

\* C7: whenever no subset of the pool satisfies the active constraints (for
\* example demand above the pool's total capacity), or the solver's status is not
\* Optimal, select_fleet_milp returns the empty list and select_fleet_minmax_milp
\* returns ([], None): never a partial selection.
C7_InfeasibleIsEmpty ==
    /\ (IsExact /\ Solved /\ (ExactFeasibleSets = {} \/ status # Some(LpStatusOptimal)))
          => selected = << >>
    /\ (IsRobust /\ Solved /\ (RobustFeasibleSets = {} \/ status # Some(LpStatusOptimal)))
          => (selected = << >> /\ z_value = None)
    /\ (Solved /\ cargo_demand > SumField(AllRows, "dwt"))
          => (selected = << >> /\ z_value = None /\ status # Some(LpStatusOptimal))

\* The robust call on the fixture with the impossible demand has returned ([], None).
C7_Witness ==
    /\ IsRobust /\ pc = "returned" /\ df = FixtureVessels /\ cargo_demand = 999999999
    /\ selected = << >> /\ z_value = None

\* No two vessels of the pool share a fuel type.
DistinctFuelTypes ==
    \A i \in AllRows : \A j \in AllRows :
        i # j => df[i].main_engine_fuel_type # df[j].main_engine_fuel_type

\* C8: with require_all_fuel_types=True on a pool whose vessels all have
\* different fuel types, every feasible solve selects all vessels of the pool,
\* even when fewer would meet the demand; on the fixture with demand 500,000 and
\* threshold 1.0 the solve is feasible and returns all 5 ids.
C8_DiversityForcesCoverage ==
    /\ (Solved /\ status = Some(LpStatusOptimal) /\ require_all_fuel_types /\ DistinctFuelTypes)
          => (SelectedSet = AllIds /\ Len(selected) = Len(df))
    /\ FixtureRun(500000, 10, TRUE)
          => /\ status = Some(LpStatusOptimal)
             /\ selected = << 10102950, 10522650, 10657280, 10673120, 10791900 >>

\* The fixture solved with diversity on, although three vessels meet the demand.
C8_Witness ==
    /\ FixtureRun(500000, 10, TRUE) /\ pc = "returned" /\ Len(selected) = 5
    /\ \E S \in SUBSET AllRows : Cardinality(S) = 3 /\ MeetsDemand(S)

\* The total cost of the rows S under scenario s, from the cost-matrix formula.
ScenarioCostOf(S, s) ==
    SumField(S, "final_cost") - SumField(S, "carbon_cost")
        + SumField(S, "CO2eq") * scenarios[s].carbon_price

\* The maximum over the scenarios of the total cost of the rows S.
WorstCaseCost(S) ==
    CHOOSE c \in { ScenarioCostOf(S, s) : s \in 1..Len(scenarios) } :
        \A s \in 1..Len(scenarios) : ScenarioCostOf(S, s) <= c

\* The largest entry of fleet_costs_by_scenario's result.
WorstReportedCost ==
    CHOOSE c \in { cost_by_scenario[s] : s \in 1..Len(cost_by_scenario) } :
        \A s \in 1..Len(cost_by_scenario) : cost_by_scenario[s] <= c

\* C9: for every scenario set and every feasible robust solve, the returned Z
\* equals the maximum over scenarios of the returned fleet's total scenario
\* cost, as fleet_costs_by_scenario computes it, within 1.0 USD (100 cents).
C9_WorstCaseEqualsZ ==
    (IsRobust /\ pc = "costed" /\ status = Some(LpStatusOptimal)) =>
        /\ z_value # None
        /\ WorstReportedCost - TheVal(z_value) < 100
        /\ TheVal(z_value) - WorstReportedCost < 100

\* A robust fleet whose cost differs between two scenarios has been costed.
C9_Witness ==
    /\ IsRobust /\ pc = "costed" /\ status = Some(LpStatusOptimal) /\ cargo_demand >= 1
    /\ Len(selected) >= 2 /\ Len(cost_by_scenario) = 2
    /\ cost_by_scenario[1] < cost_by_scenario[2]

\* C10: the fleet returned by select_fleet_minmax_milp minimises the worst-case
\* cost: it satisfies capacity >= demand, the strictest safety threshold and (if
\* required) diversity, and no subset that satisfies them has a smaller
\* maximum-over-scenarios total cost than the returned Z.
C10_RobustOptimality ==
    (IsRobust /\ Solved /\ status = Some(LpStatusOptimal)) =>
        /\ SelectedRows \in RobustFeasibleSets
        /\ WorstCaseCost(SelectedRows) <= TheVal(z_value)
        /\ \A S \in RobustFeasibleSets : WorstCaseCost(S) >= TheVal(z_value)

\* A robust fleet was returned although another feasible fleet is cheaper in
\* one scenario (and dearer in the worst case).
C10_Witness ==
    /\ IsRobust /\ pc = "returned" /\ status = Some(LpStatusOptimal) /\ cargo_demand >= 1
    /\ \E S \in RobustFeasibleSets :
          /\ WorstCaseCost(S) > TheVal(z_value)
          /\ \E s \in 1..Len(scenarios) : ScenarioCostOf(S, s) < ScenarioCostOf(SelectedRows, s)

\* The list l is in strictly ascending order.
Ascending(l) == \A k \in 1..(Len(l) - 1) : l[k] < l[k + 1]

\* C11: every non-empty fleet returned by select_fleet_minmax_milp satisfies
\* the structural constraints under the strictest scenario: capacity sum >=
\* demand, mean safety >= the maximum min_avg_safety over the scenarios (hence
\* >= every scenario's floor), every fuel type represented if diversity is
\* required; validate_fleet with that maximum threshold returns (True, []), and
\* the returned ids are sorted ascending.
C11_RobustFleetIsStructurallyValid ==
    (IsRobust /\ Solved /\ selected # << >>) =>
        /\ MeetsDemand(SelectedRows)
        /\ MeanSafetyAtLeast(SelectedRows, StrictestThreshold)
        /\ \A s \in 1..Len(scenarios) :
              MeanSafetyAtLeast(SelectedRows, scenarios[s].min_avg_safety)
        /\ (require_all_fuel_types => CoversFuelTypes(SelectedRows))
        /\ Ascending(selected)
        /\ (pc \in {"validated", "costed"} => (ok = Some(TRUE) /\ errors = << >>))

\* A validated robust fleet of several vessels under scenarios with different
\* safety floors, where a cheaper fleet meets the demand and the loosest floor
\* but not the strictest.
C11_Witness ==
    /\ IsRobust /\ pc = "validated" /\ Len(selected) >= 2 /\ cargo_demand >= 1
    /\ \E s \in 1..Len(scenarios) : scenarios[s].min_avg_safety < StrictestThreshold
    /\ \E S \in SUBSET AllRows :
          /\ MeetsDemand(S)
          /\ \E s \in 1..Len(scenarios) : MeetsSafetySum(S, scenarios[s].min_avg_safety)
          /\ ~MeetsSafetySum(S, StrictestThreshold)
          /\ WorstCaseCost(S) < TheVal(z_value)

\* The total final_cost of the pool's rows whose id is in the list ids.
CostOfIds(ids) ==
    SumField({ i \in AllRows : \E k \in 1..Len(ids) : ids[k] = df[i].vessel_id }, "final_cost")

\* select_fleet_milp has been called twice on the same pool, flag and cap; the
\* first call's arguments and outcome are the run's, the second's are Second.
Repeated == call = "select_fleet_milp" /\ pc = "repeated"
Second == solves[1]

\* C12: demand monotonicity: for a fixed pool, safety threshold and diversity
\* flag, if d1 <= d2 and the solve at d2 is feasible, then the solve at d1 is
\* feasible and the optimal cost at d1 is <= the optimal cost at d2.
C12_DemandMonotonicity ==
    (Repeated /\ Second.min_avg_safety = TheVal(min_avg_safety)) =>
        /\ (Second.cargo_demand <= cargo_demand /\ status = Some(LpStatusOptimal))
              => /\ Second.status = LpStatusOptimal
                 /\ CostOfIds(Second.selected_ids) <= SelectedCost
        /\ (cargo_demand <= Second.cargo_demand /\ Second.status = LpStatusOptimal)
              => /\ status = Some(LpStatusOptimal)
                 /\ SelectedCost <= CostOfIds(Second.selected_ids)

\* Two feasible solves at different positive demands, the lower one cheaper.
C12_Witness ==
    /\ Repeated /\ Second.min_avg_safety = TheVal(min_avg_safety)
    /\ 0 < Second.cargo_demand /\ Second.cargo_demand < cargo_demand
    /\ status = Some(LpStatusOptimal) /\ Second.status = LpStatusOptimal
    /\ CostOfIds(Second.selected_ids) < SelectedCost

\* The list of thresholds is strictly increasing.
IncreasingThresholds == \A k \in 1..(Len(thresholds) - 1) : thresholds[k] < thresholds[k + 1]

\* C13: safety-threshold monotonicity: for a fixed pool, demand and diversity
\* flag, if t1 <= t2 and the solve at t2 is feasible, then the solve at t1 is
\* feasible and the optimal cost at t2 is >= the optimal cost at t1; in
\* run_safety_sweep over increasing thresholds the feasible costs are
\* non-decreasing and no feasible point follows an infeasible one.
C13_SafetyMonotonicity ==
    /\ (Repeated /\ Second.cargo_demand = cargo_demand) =>
          /\ (Second.min_avg_safety <= TheVal(min_avg_safety) /\ status = Some(LpStatusOptimal))
                => /\ Second.status = LpStatusOptimal
                   /\ CostOfIds(Second.selected_ids) <= SelectedCost
          /\ (TheVal(min_avg_safety) <= Second.min_avg_safety /\ Second.status = LpStatusOptimal)
                => /\ status = Some(LpStatusOptimal)
                   /\ SelectedCost <= CostOfIds(Second.selected_ids)
    /\ (call = "run_safety_sweep" /\ IncreasingThresholds) =>
          \A i \in 1..Len(results) : \A j \in i..Len(results) :
              /\ results[i].threshold = thresholds[i]
              /\ results[j].feasible => results[i].feasible
              /\ (results[i].feasible /\ results[j].feasible)
                    => /\ TheVal(results[i].total_cost_usd) <= TheVal(results[j].total_cost_usd)
                       /\ TheVal(results[i].total_cost_usd) = CostOfIds(results[i].selected_ids)

\* A sweep over three increasing thresholds has returned: its first point is
\* feasible, a later one dearer, the last one infeasible.
C13_Witness ==
    /\ call = "run_safety_sweep" /\ pc = "returned" /\ IncreasingThresholds
    /\ Len(results) = 3 /\ cargo_demand >= 1
    /\ results[1].feasible /\ results[2].feasible /\ ~results[3].feasible
    /\ TheVal(results[1].total_cost_usd) < TheVal(results[2].total_cost_usd)

\* compute_shadow_prices is past its DWT perturbation.
ShadowDwtDone == call = "compute_shadow_prices" /\ pc \in {"safety", "returned"}

\* The subsets that satisfy the constraints at 1.01 times the demand (same
\* threshold, every fuel type covered), and the least cost among them.
PerturbedFeasibleSets ==
    { S \in SUBSET AllRows :
        /\ 100 * SumField(S, "dwt") >= 101 * cargo_demand
        /\ MeetsSafetySum(S, TheVal(min_avg_safety))
        /\ CoversFuelTypes(S) }
PerturbedOptimalCost ==
    CHOOSE c \in { SumField(S, "final_cost") : S \in PerturbedFeasibleSets } :
        \A S \in PerturbedFeasibleSets : c <= SumField(S, "final_cost")

\* The quotient q = <<dividend, divisor>> is a number >= 0 (nan, 0/0, is not).
NonNegative(q) == (q[2] > 0 /\ q[1] >= 0) \/ (q[2] < 0 /\ q[1] <= 0) \/ (q[2] = 0 /\ q[1] > 0)

\* C14 as stated: for every feasible base case (whose solve at demand * 1.01 is
\* feasible too), compute_shadow_prices reports a DWT-demand shadow price that
\* is >= 0 and equals (perturbed_cost - base_cost) / (demand * 0.01), where
\* perturbed_cost is the optimal cost at demand * 1.01 with the same threshold.
C14_AsStated ==
    (ShadowDwtDone /\ PerturbedFeasibleSets # {}) =>
        LET res == TheVal(result) IN
        /\ res.base_cost = Some(CostOfIds(solves[1].selected_ids))
        /\ res.perturbed_cost_dwt = Some(PerturbedOptimalCost)
        /\ res.dwt_shadow_price # None
        /\ TheVal(res.dwt_shadow_price)
              = << (PerturbedOptimalCost - TheVal(res.base_cost)) * 100, cargo_demand >>
        /\ NonNegative(TheVal(res.dwt_shadow_price))

\* The same statement for every demand other than 0.
C14_AwayFromZero == cargo_demand # 0 => C14_AsStated

\* A feasible base case at demand 0: the reported shadow price is 0 / 0.
C14_Witness ==
    /\ ShadowDwtDone /\ cargo_demand = 0
    /\ TheVal(result).base_cost # None
    /\ TheVal(result).dwt_shadow_price = Some(<< 0, 0 >>)

\* C15: determinism of the exact selector: two calls of select_fleet_milp with
\* identical pool, demand, threshold, diversity flag and cap yield the same
\* feasibility outcome and the same optimal cost (the membership may differ
\* between equal-cost fleets), and the returned ids are always ascending.
C15_Determinism ==
    /\ ( /\ Repeated
         /\ Second.cargo_demand = cargo_demand
         /\ Second.min_avg_safety = TheVal(min_avg_safety) )
       => /\ Second.status = TheVal(status)
          /\ (Second.selected_ids = << >>) <=> (selected = << >>)
          /\ CostOfIds(Second.selected_ids) = SelectedCost
    /\ (IsExact /\ Solved) => Ascending(selected)
    /\ Repeated => Ascending(Second.selected_ids)

\* Two calls with identical arguments returned different fleets of several
\* vessels at the same cost.
C15_Witness ==
    /\ Repeated
    /\ Second.cargo_demand = cargo_demand
    /\ Second.min_avg_safety = TheVal(min_avg_safety)
    /\ Len(selected) >= 2
    /\ Second.selected_ids # selected
    /\ CostOfIds(Second.selected_ids) = SelectedCost

\* validate_fleet has returned its verdict on the list handed over.
Validated == call = "validate_fleet" /\ pc = "validated"

\* The number of TRUE entries of a tuple of truth values.
CountTrue(checks) == Cardinality({ k \in 1..Len(checks) : checks[k] })

\* C16 as stated: validate_fleet returns ok=True with an empty list exactly
\* when the selected vessels' capacity sum is >= demand, their mean safety is >=
\* the threshold and (only if diversity is required) every fuel type of the
\* pool appears in the selection; otherwise ok=False with exactly one message
\* per failed check; it never raises for a constraint violation.
C16_AsStated ==
    Validated =>
        LET S == SelectedRows
            failed == << ~MeetsDemand(S),
                         ~MeanSafetyAtLeast(S, TheVal(min_avg_safety)),
                         require_all_fuel_types /\ ~CoversFuelTypes(S) >>
        IN  /\ (ok = Some(TRUE) /\ errors = << >>) <=> CountTrue(failed) = 0
            /\ CountTrue(failed) > 0 => (ok = Some(FALSE) /\ Len(errors) = CountTrue(failed))
            /\ raised = None

\* C16, amended: validate_fleet returns ok=True with an empty list exactly when
\* the capacity sum of the pool's vessels listed in the selection is >= demand,
\* their mean safety is >= the threshold or the selection lists no vessel of the
\* pool (the mean is then undefined and no safety violation is reported), and
\* (only if diversity is required) every fuel type of the pool appears among
\* them; otherwise ok=False with exactly one message per failed check, in the
\* order capacity, safety, fuel; it never raises.
C16_ValidateDecidesTheChecks ==
    Validated =>
        LET S == SelectedRows
            failed == << ~MeetsDemand(S),
                         S # {} /\ ~MeanSafetyAtLeast(S, TheVal(min_avg_safety)),
                         require_all_fuel_types /\ ~CoversFuelTypes(S) >>
            tags == << "dwt", "safety", "fuel" >>
        IN  /\ (ok = Some(TRUE) /\ errors = << >>) <=> CountTrue(failed) = 0
            /\ ok = Some(CountTrue(failed) = 0)
            /\ Len(errors) = CountTrue(failed)
            /\ \A k \in 1..3 : failed[k] <=> \E e \in 1..Len(errors) : errors[e] = tags[k]
            /\ \A e \in 1..Len(errors) : \A f \in 1..Len(errors) :
                  (e < f) => \E k \in 1..3 : \E m \in 1..3 :
                                k < m /\ errors[e] = tags[k] /\ errors[f] = tags[m]
            /\ raised = None

\* A selection of several vessels of the pool that fails exactly two checks.
C16_Witness ==
    /\ Validated /\ Cardinality(SelectedRows) >= 2 /\ cargo_demand >= 1
    /\ ok = Some(FALSE) /\ Len(errors) = 2

\* C17 as stated: when the selection contains a vessel id that is not in the
\* pool, validate_fleet raises an error instead of returning an (ok,
\* violations) verdict computed from the known ids only.
C17_AsStated ==
    (Validated /\ \E k \in 1..Len(selected) : selected[k] \notin AllIds)
        => (raised # None /\ ok = None)

\* A list with an unknown id got the verdict ok=True.
C17_Witness ==
    /\ Validated /\ raised = None /\ ok = Some(TRUE)
    /\ \E k \in 1..Len(selected) : selected[k] \notin AllIds
    /\ SelectedRows # {} /\ cargo_demand >= 1

\* The table main reads, and what is wrong with it.
CsvTable == TheVal(csv)
MissingColumn == \E c \in REQUIRED_COLUMNS : c \notin CsvTable.columns
DuplicatedId ==
    \E i \in 1..Len(CsvTable.rows) : \E j \in 1..Len(CsvTable.rows) :
        i # j /\ CsvTable.rows[i].vessel_id = CsvTable.rows[j].vessel_id
NonPositiveCost == \E i \in 1..Len(CsvTable.rows) : CsvTable.rows[i].final_cost <= 0

\* The listed fleet, read from the pool by its ids, meets the three constraints.
FleetMeetsConstraints ==
    /\ MeetsDemand(SelectedRows)
    /\ MeanSafetyAtLeast(SelectedRows, TheVal(min_avg_safety))
    /\ CoversFuelTypes(SelectedRows)

\* C18 as stated: a selection that fails its own constraints after the solve is
\* never reported: the selector's output was re-validated before it got
\* back to main, and whenever validate_fleet reports a violation the run aborts:
\* no metrics are printed and no chosen fleet is saved after a failed validation.
C18_AsStated ==
    call = "main" =>
        /\ pc \in {"selected", "validated", "reported", "saved"} => FleetMeetsConstraints
        /\ ok = Some(FALSE) =>
              /\ "Fleet Selection Results" \notin printed
              /\ "Selected vessel IDs" \notin printed
              /\ saved = None
              /\ pc \notin {"reported", "saved"}

\* main printed FAIL, then the results, and saved the fleet.
C18_Witness ==
    /\ call = "main" /\ pc = "saved" /\ ok = Some(FALSE)
    /\ "Fleet validation: FAIL" \in printed
    /\ "Fleet Selection Results" \in printed
    /\ saved = Some(selected)

\* C19 as stated: a vessel table with a missing required column, a duplicated
\* vessel id, or a vessel whose cost is <= 0 is rejected by load_per_vessel
\* with an error, so that no call of select_fleet_milp is made on it in run.py.
C19_AsStated ==
    (call = "main" /\ pc # "start" /\ (MissingColumn \/ DuplicatedId \/ NonPositiveCost))
        => /\ pc = "exited"
           /\ raised # None
           /\ raised # Some("SystemExit(1)")
           /\ solves = << >>

\* The two kinds of table that load_per_vessel does reject.
C19_MissingColumnOrCostRejected ==
    (call = "main" /\ pc # "start" /\ (MissingColumn \/ NonPositiveCost))
        => (pc = "exited" /\ raised # None /\ raised # Some("SystemExit(1)") /\ solves = << >>)

\* select_fleet_milp has been called on a table with a duplicated vessel id.
C19_Witness ==
    /\ call = "main" /\ DuplicatedId /\ raised = None
    /\ Len(solves) = 1 /\ Len(selected) >= 1 /\ cargo_demand >= 1

\* run_diversity_whatif has returned its comparison.
WhatifReturned == call = "run_diversity_whatif" /\ pc = "returned"

\* C20 as stated: zero or negative demand is feasible: with demand <= 0 and
\* diversity not required the exact selector's outcome is the feasible empty
\* selection (cost 0); with diversity required it is the minimum-cost set
\* covering one vessel per fuel type (among the sets that meet the safety floor,
\* when there is one); in both cases the outcome is distinguishable from
\* Infeasible: the value returned differs from the value returned by an
\* infeasible solve, and run_diversity_whatif does not report such a point as
\* infeasible.
C20_AsStated ==
    /\ (IsExact /\ Solved /\ cargo_demand <= 0 /\ co2_cap = None /\ ~require_all_fuel_types)
          => /\ status = Some(LpStatusOptimal)
             /\ selected = << >>
             /\ SelectedCost = 0
    /\ ( /\ IsExact /\ Solved /\ cargo_demand <= 0 /\ co2_cap = None
         /\ require_all_fuel_types /\ ExactFeasibleSets # {} )
          => /\ status = Some(LpStatusOptimal)
             /\ CoversFuelTypes(SelectedRows)
             /\ \A S \in SUBSET AllRows :
                   (CoversFuelTypes(S) /\ MeetsSafetySum(S, TheVal(min_avg_safety)))
                      => SelectedCost <= SumField(S, "final_cost")
    /\ ( /\ Repeated /\ cargo_demand <= 0
         /\ status = Some(LpStatusOptimal) /\ Second.status # LpStatusOptimal )
          => Second.selected_ids # selected
    /\ (WhatifReturned /\ cargo_demand <= 0)
          => /\ TheVal(result).without_diversity.feasible
             /\ TheVal(result).with_diversity.feasible <=> solves[1].status = LpStatusOptimal

\* At demand 0 both solves of run_diversity_whatif were Optimal, and the
\* comparison reports the one without diversity as not feasible.
C20_Witness ==
    /\ WhatifReturned /\ cargo_demand = 0
    /\ solves[1].status = LpStatusOptimal /\ solves[2].status = LpStatusOptimal
    /\ TheVal(result).with_diversity.feasible
    /\ ~TheVal(result).without_diversity.feasible
    /\ TheVal(result).cost_savings = None

\* compute_shadow_prices has returned.
ShadowReturned == call = "compute_shadow_prices" /\ pc = "returned"

\* C21 as stated: degenerate perturbation: when the perturbation size is zero
\* (cargo_demand = 0, so the +1% demand step is 0) and the base case is feasible,
\* compute_shadow_prices marks dwt_shadow_price as None rather than dividing by
\* zero or raising, and still reports the safety shadow price.
C21_AsStated ==
    (ShadowReturned /\ cargo_demand = 0 /\ solves[1].selected_ids # << >>) =>
        LET res == TheVal(result) IN
        /\ raised = None
        /\ res.dwt_shadow_price = None
        /\ solves[3].selected_ids # << >> => res.safety_shadow_price # None

\* compute_shadow_prices returned at demand 0 with a feasible base case: the
\* step is 0/100, the DWT shadow price is the quotient 0/0, the safety shadow
\* price is reported.
C21_Witness ==
    /\ ShadowReturned /\ cargo_demand = 0 /\ solves[1].selected_ids # << >>
    /\ TheVal(result).dwt_perturbation = Some(<< 0, 100 >>)
    /\ TheVal(result).dwt_shadow_price # None
    /\ TheVal(result).dwt_shadow_price = Some(<< 0, 0 >>)
    /\ TheVal(result).safety_shadow_price # None

\* run_pareto_sweep has returned its list of records.
ParetoReturned == call = "run_pareto_sweep" /\ pc = "returned"

\* Record j is the feasible record that precedes record k among the feasible ones.
Consecutive(j, k) ==
    /\ j < k
    /\ results[j].feasible /\ results[k].feasible
    /\ \A m \in (j + 1)..(k - 1) : ~results[m].feasible

Emissions(k) == TheVal(results[k].total_co2e_tonnes)
Cost(k) == TheVal(results[k].total_cost_usd)

EMax == SumField({ i \in AllRows : \E k \in 1..Len(solves[1].selected_ids) :
                                      solves[1].selected_ids[k] = df[i].vessel_id }, "CO2eq")
EMin ==
    CHOOSE e \in { SumField(S, "CO2eq") : S \in ExactFeasibleSets } :
        \A S \in ExactFeasibleSets : e <= SumField(S, "CO2eq")

\* The solve is a cost-minimising call of select_fleet_milp / the emissions-
\* minimising solve, with the sweep's demand, threshold and diversity flag.
SameConstraints(rec) ==
    /\ rec.cargo_demand = cargo_demand
    /\ rec.min_avg_safety = TheVal(min_avg_safety)
    /\ rec.require_all_fuel_types = require_all_fuel_types
IsCostSolve(rec) == "objective" \notin DOMAIN rec /\ SameConstraints(rec)
IsEmissionsSolve(rec) ==
    "objective" \in DOMAIN rec /\ rec.objective = "CO2eq" /\ SameConstraints(rec)

\* The fraction q equals the whole number n.
FractionIs(q, n) == q[2] # 0 /\ q[1] = n * q[2]

\* The order and the kind of the solves made so far, and the grid they use:
\* the caps are evenly spaced and start at E_max.
ParetoSolveOrder ==
    /\ Len(solves) >= 1 => IsCostSolve(solves[1]) /\ solves[1].co2_cap = None
    /\ Len(solves) >= 2 =>
          /\ solves[1].selected_ids # << >>
          /\ IsEmissionsSolve(solves[2])
          /\ solves[2].co2_min = Some(EMin)
          /\ Len(epsilons) = TheVal(n_points)
          /\ FractionIs(epsilons[1], EMax)
          /\ \A k \in 1..(Len(epsilons) - 2) :
                /\ epsilons[k][2] = epsilons[k + 1][2] /\ epsilons[k + 1][2] = epsilons[k + 2][2]
                /\ epsilons[k][1] - epsilons[k + 1][1] = epsilons[k + 1][1] - epsilons[k + 2][1]
          /\ \A k \in 1..(Len(epsilons) - 1) :
                epsilons[k][1] * epsilons[k + 1][2] >= epsilons[k + 1][1] * epsilons[k][2]
    /\ \A k \in 3..Len(solves) :
          /\ IsCostSolve(solves[k])
          /\ solves[k].co2_cap # None
          /\ TheVal(solves[k].co2_cap) * epsilons[k - 2][2] <= epsilons[k - 2][1]
          /\ (TheVal(solves[k].co2_cap) + 1) * epsilons[k - 2][2] > epsilons[k - 2][1]
    /\ Len(solves) < 2 => epsilons = << >> /\ results = << >>
    /\ (pc = "returned" /\ solves[1].status # LpStatusOptimal) =>
          results = << >> /\ Len(solves) = 1
    /\ (pc = "returned" /\ Len(solves) > 1) =>
          Len(solves) = 2 + TheVal(n_points) /\ Len(results) = TheVal(n_points)

\* C23 as stated: ordering of solves in run_pareto_sweep: the uncapped
\* cost-minimising solve (giving E_max) runs first, then the emissions-minimising
\* solve under the same capacity, safety and diversity constraints (giving
\* E_min), and only then the n_points grid solves, whose caps are evenly spaced
\* from E_max (first) down to E_min (last); if the base solve is infeasible the
\* result is the empty list and neither the emissions-minimising solve nor any
\* grid solve is run.
C23_AsStated ==
    call = "run_pareto_sweep" =>
        /\ ParetoSolveOrder
        /\ Len(solves) >= 2 => FractionIs(epsilons[Len(epsilons)], EMin)

\* C23: the same ordering; the last cap is E_min when n_points >= 2, and a
\* single grid point is capped at E_max.
C23_SolveOrder ==
    call = "run_pareto_sweep" =>
        /\ ParetoSolveOrder
        /\ (Len(solves) >= 2 /\ TheVal(n_points) >= 2) => FractionIs(epsilons[Len(epsilons)], EMin)
        /\ (Len(solves) >= 2 /\ TheVal(n_points) = 1) => FractionIs(epsilons[1], EMax)

\* A returned sweep of three grid points between different E_max and E_min:
\* five solves were made.
C23_Witness ==
    /\ ParetoReturned /\ TheVal(n_points) = 3
    /\ Len(solves) = 5 /\ Len(results) = 3
    /\ EMin < EMax
    /\ FractionIs(epsilons[3], EMin)
    /\ ~FractionIs(epsilons[2], EMin) /\ ~FractionIs(epsilons[2], EMax)

\* Some subset of the pool covers every fuel type and meets the demand q (a
\* fraction, in tonnes) and the threshold t (in tenths).
FeasibleAt(q, t) ==
    \E S \in SUBSET AllRows :
        /\ SumField(S, "dwt") * q[2] >= q[1]
        /\ MeetsSafetySum(S, t)
        /\ CoversFuelTypes(S)

\* The fields of compute_shadow_prices' result that carry values.
ShadowFields ==
    { "base_cost", "base_fleet_size", "dwt_shadow_price", "safety_shadow_price",
      "perturbed_cost_dwt", "perturbed_cost_safety", "perturbed_fleet_size_dwt",
      "perturbed_fleet_size_safety", "dwt_perturbation", "safety_perturbation" }

\* C24: compute_shadow_prices handles each perturbation independently: if the
\* base case is infeasible every field is None and no perturbed solve is run;
\* if the +1% demand solve is infeasible, dwt_shadow_price is None while the
\* safety shadow price is still computed as (perturbed_cost - base_cost) / 0.1,
\* and vice versa when only the +0.1 safety solve is infeasible.
C24_IndependentPerturbations ==
    ShadowReturned =>
        LET res == TheVal(result)
            t == TheVal(min_avg_safety)
            base_cost == CostOfIds(solves[1].selected_ids)
        IN  IF ~FeasibleAt(<< cargo_demand, 1 >>, t)
            THEN /\ Len(solves) = 1
                 /\ \A f \in ShadowFields : res[f] = None
            ELSE /\ Len(solves) = 3
                 /\ res.base_cost = Some(base_cost)
                 /\ IF FeasibleAt(<< 101 * cargo_demand, 100 >>, t)
                    THEN res.dwt_shadow_price
                            = Some(<< (CostOfIds(solves[2].selected_ids) - base_cost) * 100,
                                      cargo_demand >>)
                    ELSE res.dwt_shadow_price = None /\ res.perturbed_cost_dwt = None
                 /\ IF FeasibleAt(<< cargo_demand, 1 >>, t + 1)
                    THEN /\ solves[3].selected_ids # << >>
                         /\ res.safety_shadow_price
                               = Some(<< (CostOfIds(solves[3].selected_ids) - base_cost) * 10, 1 >>)
                    ELSE res.safety_shadow_price = None /\ res.perturbed_cost_safety = None

\* A feasible base case at a positive demand whose +1% demand solve is
\* infeasible and whose +0.1 safety solve is feasible.
C24_Witness ==
    /\ ShadowReturned /\ cargo_demand >= 1
    /\ solves[1].status = LpStatusOptimal
    /\ solves[2].status # LpStatusOptimal
    /\ solves[3].status = LpStatusOptimal
    /\ TheVal(result).dwt_shadow_price = None
    /\ TheVal(result).safety_shadow_price # None
    /\ TheVal(TheVal(result).safety_shadow_price)[2] = 1
    /\ Len(solves[3].selected_ids) >= 2

\* The columns of the pool other than final_cost are the same in the copy.
OnlyFinalCostDiffers(d, copy) ==
    /\ Len(copy) = Len(d)
    /\ \A i \in 1..Len(d) :
          /\ DOMAIN copy[i] = DOMAIN d[i]
          /\ \A c \in DOMAIN d[i] \ {"final_cost"} : copy[i][c] = d[i][c]

\* C25: no analysis mutates the pool it is given: across every step of
\* select_fleet_milp, select_fleet_minmax_milp, build_scenario_cost_matrix,
\* run_safety_sweep, run_pareto_sweep, compute_shadow_prices,
\* run_diversity_whatif and run_carbon_price_sweep every vessel's cost,
\* capacity, safety rating, fuel type and emissions in the caller's pool equal
\* their values before it; the carbon-price adjustment is written only to a
\* per-point copy.
C25_PoolNotMutated ==
    [][ /\ df' = df
        /\ (call = "run_carbon_price_sweep" /\ Len(results') > Len(results))
              => /\ df_copy' # None
                 /\ OnlyFinalCostDiffers(df, TheVal(df_copy')) ]_vars

\* run_carbon_price_sweep has returned after two points at different prices:
\* the last copy carries other costs than the pool.
C25_Witness ==
    /\ call = "run_carbon_price_sweep" /\ pc = "returned"
    /\ Len(results) = 2
    /\ df_copy # None /\ TheVal(df_copy) # df
    /\ \E i \in 1..Len(df) : TheVal(df_copy)[i].final_cost > df[i].final_cost

RECURSIVE SumOver(_, _)
\* The sum of the function cost over the rows S.
SumOver(cost, S) ==
    IF S = {} THEN 0
    ELSE LET i == CHOOSE j \in S : TRUE IN cost[i] + SumOver(cost, S \ {i})

\* The rows of the pool whose id is in the list ids.
RowsOf(ids) == { i \in AllRows : \E k \in 1..Len(ids) : ids[k] = df[i].vessel_id }

\* The cost of each vessel at the carbon price p, from the pool's own
\* final_cost and carbon cost (CO2eq * 80 where the pool has no such column).
CostAtPrice(p) ==
    [i \in AllRows |->
        df[i].final_cost
        - (IF "carbon_cost" \in DOMAIN df[i] THEN df[i].carbon_cost ELSE df[i].CO2eq * 80)
        + df[i].CO2eq * p]
OwnCost == [i \in AllRows |-> df[i].final_cost]

\* The record rec is what the pool, the demand, the threshold t and the vessel
\* costs alone determine: feasible exactly when some subset covering every fuel
\* type meets demand and threshold, and then a cheapest such fleet with its metrics.
PointRecord(rec, t, cost) ==
    LET F == { S \in SUBSET AllRows :
                 MeetsDemand(S) /\ MeetsSafetySum(S, t) /\ CoversFuelTypes(S) }
        fleet == RowsOf(rec.selected_ids)
    IN  /\ rec.feasible <=> F # {}
        /\ rec.feasible =>
              /\ fleet \in F
              /\ Len(rec.selected_ids) = Cardinality(fleet)
              /\ rec.total_cost_usd = Some(SumOver(cost, fleet))
              /\ \A S \in F : SumOver(cost, fleet) <= SumOver(cost, S)
              /\ rec.total_co2e_tonnes = Some(SumField(fleet, "CO2eq"))
              /\ rec.total_dwt = Some(SumField(fleet, "dwt"))
              /\ rec.fleet_size = Some(Cardinality(fleet))
        /\ ~rec.feasible =>
              /\ rec.selected_ids = << >>
              /\ rec.total_cost_usd = None /\ rec.fleet_size = None

MatrixReturned == call = "build_scenario_cost_matrix" /\ pc = "returned"

\* The carbon cost the pool carries for vessel i: its carbon_cost, or
\* CO2eq * 80 when the pool has no such column.
BaseEmissionsCost(i) ==
    IF "carbon_cost" \in DOMAIN df[i] THEN df[i].carbon_cost ELSE 80 * df[i].CO2eq

\* |a - b| < 1.0, in cents.
WithinOneDollar(a, b) == a - b < 100 /\ b - a < 100

\* C27: scenario cost matrix: for every vessel v and scenario s,
\* build_scenario_cost_matrix gives cost(v,s) = final_cost(v) - carbon_cost(v)
\* + CO2eq(v) * carbon_price(s) (with carbon_cost(v) taken as CO2eq(v) * 80 when
\* the column is absent), which is the same adjusted cost
\* run_carbon_price_sweep uses at price carbon_price(s); the matrix has one row
\* per vessel in pool order and one column per scenario in scenario order, and
\* for a scenario priced at the base price 80 the column equals final_cost
\* within 1.0.
C27_ScenarioCostMatrix ==
    /\ MatrixReturned =>
          LET matrix == TheVal(result) IN
          /\ Len(matrix) = Len(scenarios)
          /\ \A s \in 1..Len(scenarios) :
                /\ Len(matrix[s]) = Len(df)
                /\ \A v \in 1..Len(df) :
                      /\ matrix[s][v] = df[v].final_cost - BaseEmissionsCost(v)
                                        + df[v].CO2eq * scenarios[s].carbon_price
                      /\ scenarios[s].carbon_price = 80
                            => WithinOneDollar(matrix[s][v], df[v].final_cost)
    /\ (call = "run_carbon_price_sweep" /\ df_copy # None) =>
          LET cp == carbon_prices[Len(results)]
              matrix == build_scenario_cost_matrix(df, << Scenario("point", cp, 0) >>)
          IN  \A v \in 1..Len(df) :
                 /\ TheVal(df_copy)[v].vessel_id = df[v].vessel_id
                 /\ TheVal(df_copy)[v].final_cost = matrix[1][v]

\* The matrix of a two-vessel pool without a carbon_cost column under a
\* scenario at the base price and one at 160: the second column is dearer.
C27_Witness ==
    /\ MatrixReturned /\ Len(df) = 2 /\ Len(scenarios) = 2
    /\ "carbon_cost" \notin DOMAIN df[1]
    /\ scenarios[1].carbon_price = 80 /\ scenarios[2].carbon_price = 160
    /\ TheVal(result)[1][1] = df[1].final_cost
    /\ TheVal(result)[2][1] > df[1].final_cost
    /\ TheVal(result)[2][2] > df[2].final_cost

\* The fuel types of the pool's vessels whose id is in the list ids.
FuelTypesOfIds(ids) ==
    { df[i].main_engine_fuel_type :
        i \in { j \in AllRows : \E k \in 1..Len(ids) : ids[k] = df[j].vessel_id } }

\* C28: run_diversity_whatif solves the exact problem twice at the same demand
\* and threshold, once with diversity required and once without; when both
\* solves return a fleet it reports cost_savings = cost_without - cost_with,
\* which is never positive, fleet_size_diff = size_without - size_with, and
\* fuel_types_lost = exactly the fuel types present in the diverse fleet and
\* absent from the non-diverse fleet; when either solve returns no fleet,
\* cost_savings and fleet_size_diff are None.
C28_DiversityWhatif ==
    WhatifReturned =>
        LET res == TheVal(result)
            with_ids == solves[1].selected_ids
            without_ids == solves[2].selected_ids
        IN  /\ Len(solves) = 2
            /\ \A k \in 1..2 : /\ solves[k].cargo_demand = cargo_demand
                               /\ solves[k].min_avg_safety = TheVal(min_avg_safety)
                               /\ solves[k].co2_cap = None
            /\ solves[1].require_all_fuel_types /\ ~solves[2].require_all_fuel_types
            /\ res.with_diversity.selected_ids = with_ids
            /\ res.without_diversity.selected_ids = without_ids
            /\ IF with_ids # << >> /\ without_ids # << >>
               THEN /\ res.cost_savings = Some(CostOfIds(without_ids) - CostOfIds(with_ids))
                    /\ TheVal(res.cost_savings) <= 0
                    /\ res.fleet_size_diff = Some(Len(without_ids) - Len(with_ids))
                    /\ res.fuel_types_lost
                          = FuelTypesOfIds(with_ids) \ FuelTypesOfIds(without_ids)
               ELSE res.cost_savings = None /\ res.fleet_size_diff = None

\* Both solves returned a fleet at a positive demand: dropping the diversity
\* constraint saves cost, shrinks the fleet and loses a fuel type.
C28_Witness ==
    /\ WhatifReturned /\ cargo_demand >= 1
    /\ TheVal(result).cost_savings # None
    /\ TheVal(TheVal(result).cost_savings) < 0
    /\ TheVal(TheVal(result).fleet_size_diff) < 0
    /\ TheVal(result).fuel_types_lost # {}

\* C29: exactness of the linearised safety constraint: for every non-empty
\* subset S of the pool and every threshold t, the sum over S of (safety_i - t)
\* is >= 0 exactly when the mean safety of S is >= t, so the non-empty selections
\* admitted by the selector's safety constraint are exactly those accepted by
\* validate_fleet's mean-safety check.
C29_LinearisationExact ==
    (Validated /\ SelectedRows # {}) =>
        LET S == SelectedRows
            t == TheVal(min_avg_safety)
            accepted == \A e \in 1..Len(errors) : errors[e] # "safety"
        IN  /\ MeetsSafetySum(S, t) <=> MeanSafetyAtLeast(S, t)
            /\ SafetyConstraint(df, t, S) <=> accepted
            /\ SafetyConstraint(df, t, S) <=> MeetsSafetySum(S, t)

\* A selection of several vessels, one of them rated below the threshold, whose
\* mean reaches the threshold exactly: the validator reports no safety violation.
C29_Witness ==
    /\ Validated /\ Cardinality(SelectedRows) >= 2
    /\ \E i \in SelectedRows : 10 * df[i].safety_score < TheVal(min_avg_safety)
    /\ 10 * SumField(SelectedRows, "safety_score")
          = TheVal(min_avg_safety) * Cardinality(SelectedRows)
    /\ \A e \in 1..Len(errors) : errors[e] # "safety"

\* The least total final_cost of a subset that satisfies the capacity, safety
\* and diversity constraints, without a cap.
UncappedOptimalCost ==
    CHOOSE c \in { SumField(S, "final_cost") : S \in ExactFeasibleSets } :
        \A S \in ExactFeasibleSets : c <= SumField(S, "final_cost")

\* C30: along the grid of run_pareto_sweep with a feasible base case, every
\* grid point is feasible, the first grid point (cap = E_max) has the same cost
\* as the uncapped optimum, each record's emissions are <= its cap, and
\* total_cost_usd is non-decreasing from one grid point to the next as the cap
\* decreases; hence every shadow_carbon_price that is not None is >= 0.
C30_ParetoGrid ==
    call = "run_pareto_sweep" =>
        /\ \A k \in 1..Len(results) :
              /\ results[k].feasible
              /\ results[k].epsilon = epsilons[k]
              /\ Emissions(k) * results[k].epsilon[2] <= results[k].epsilon[1]
              /\ Emissions(k) = SumField(RowsOf(results[k].selected_ids), "CO2eq")
              /\ Cost(k) = CostOfIds(results[k].selected_ids)
              /\ results[k].shadow_carbon_price # None
                    => NonNegative(TheVal(results[k].shadow_carbon_price))
        /\ Len(results) >= 1 =>
              /\ FractionIs(results[1].epsilon, EMax)
              /\ Cost(1) = UncappedOptimalCost
              /\ Cost(1) = CostOfIds(solves[1].selected_ids)
        /\ \A k \in 1..(Len(results) - 1) : Cost(k) <= Cost(k + 1)

\* A returned frontier of three points whose cost rises at each step down the
\* grid, the last point emitting exactly its cap, with positive shadow prices.
C30_Witness ==
    /\ ParetoReturned /\ Len(results) = 3
    /\ Cost(1) < Cost(2) /\ Cost(2) < Cost(3)
    /\ FractionIs(results[3].epsilon, Emissions(3))
    /\ results[2].shadow_carbon_price # None
    /\ TheVal(results[3].shadow_carbon_price)[1] > 0

====
